---- MODULE Spec2Model ----
(***************************************************************************)
(* Quibbler: the session-agent runtime (src/quibbler/agent.py,             *)
(* src/quibbler/iflow_agent.py) and the session registry                   *)
(* (src/quibbler/iflow_hook_server.py) as state machines.                  *)
(*                                                                         *)
(* Spec / FairSpec: one session agent object of one of the four classes,   *)
(* its queue, its consumer tasks and the reply futures of its callers.     *)
(* An action is the code between two suspension points of the asyncio      *)
(* event loop.  Lifecycle calls (start, stop) come from one owner, the     *)
(* registry code, which awaits each call before it makes the next;         *)
(* review(), enqueue() and the cancellation of a waiting caller come from  *)
(* any task at any time.                                                   *)
(*                                                                         *)
(* SpecRegistry: the hook server's registry and the detached tasks that    *)
(* resolve a key, under the cooperative scheduler (variable running).      *)
(***************************************************************************)
EXTENDS Integers, Sequences, FiniteSets

\* ---------------------------------------------------------------- bounds
MaxItems == 3
MaxTasks == 2
MaxCalls == 3
MaxTurns == 30
MaxFailures == 2
MaxToolTurns == 2
MaxBlocks == 2
MaxFeedback == 2
MaxDisplays == 2
MaxLines == 4
MaxQueries == 2

\* ------------------------------------------------------------- constants
Kinds == {"QuibblerMCP", "QuibblerHook", "IFlowQuibblerMCP", "IFlowQuibblerHook"}

IsIFlow(k) == k \in {"IFlowQuibblerMCP", "IFlowQuibblerHook"}

IsMCP(k) == k \in {"QuibblerMCP", "IFlowQuibblerMCP"}

\* Hook events a client may post: the fields _should_process_event reads.
Events ==
    { [event |-> "PostToolUse", tool_name |-> "Read"],
      [event |-> "Notification", tool_name |-> "Write"],
      [event |-> "Notification", tool_name |-> "Read"] }

\* The payload of a review request (the MCP agents' queue items).
ReviewItem == [event |-> "review", tool_name |-> ""]

NoItem == [event |-> "none", tool_name |-> ""]

TaskIds == 1..MaxTasks

ItemIds == 1..MaxItems

CallIds == 1..MaxCalls

\* Session ids of hook requests.
Keys == {"s1", "s2"}

NoAgent == [key |-> "", startCalls |-> 0, client |-> FALSE, task |-> FALSE,
            queue |-> << >>]

\* No load_iflow_auth call was made.
NoSources == [env |-> "none", user |-> "none", project |-> "none"]

\* No HTTP response was produced.
NoResponse == [status |-> "none", session_id |-> ""]

NoBg == [pc |-> "none", key |-> "", quibbler |-> 0, ret |-> 0, auth |-> NoSources,
         resp |-> NoResponse]

\* The shutdown part of lifespan before it runs.
NoShutdown == [pc |-> "none", items |-> << >>]

\* ContextManager.summary = None
NoSummary == [set |-> FALSE, text |-> ""]

\* No summarizer call was made yet.
NoPrompt == [prev |-> "", old |-> << >>]

\* query(prompt): the user message that opens the conversation.
UserPrompt == [role |-> "user", kind |-> "prompt", content |-> << >>]

\* A model name as the prefix it starts with ("": none of those the code
\* or the table knows) and the rest of the string.
ModelName(prefix, rest) == [prefix |-> prefix, rest |-> rest]

\* bedrock_model_id before __init__ has set it.
NoModel == ModelName("none", "")

\* A config file that does not exist.
AbsentFile == [state |-> "absent", model |-> "", extra |-> FALSE]

\* The loader was not called.
NotLoaded == [source |-> "none", model |-> ""]

\* A display_feedback run that was not started.
NoDisplay == [pc |-> "none", platform |-> "", key |-> "", feedback |-> 0, ret |-> "none"]

NoTask == [st |-> "none", pc |-> "end", item |-> 0, cancel |-> FALSE,
           conn |-> FALSE, startup |-> "no"]

NewTask == [st |-> "run", pc |-> "new", item |-> 0, cancel |-> FALSE,
            conn |-> FALSE, startup |-> "no"]

VARIABLES
    kind,       \* the agent's class
    smart,      \* config.enable_smart_triggers
    task,       \* self.task: 0 is None, else the id of the Task object
    tasks,      \* every Task object created by start(), with its position
    ntasks,     \* how many Task objects start() has created
    client,     \* self.client of the iFlow agents: "none", "open", "closed"
    nclients,   \* how many IFlowClient objects start() has constructed
    queue,      \* self.queue: the ids of the queued items, oldest first
    blocked,    \* ids of items whose queue.put() is suspended on a full queue
    nitems,     \* how many review()/enqueue() calls were made
    payload,    \* the item each call submitted
    fut,        \* the reply future of each review(): its state
    nset,       \* how often each future was given a result or an exception
    proc,       \* where each item is: queued, inflight, completed, cut, skipped
    calls,      \* ids in the order their backend calls started; 0 is a startup message
    owner,      \* position of the lifecycle caller: "idle" or "stopping"
    lastOp,     \* the last lifecycle call and how it ended
    madeLive,   \* items submitted while a consumer task was in its loop
    atStop,     \* reviews whose future was pending when stop() was last called
    outcome,    \* how the backend call of each item ended: "none", "ok", "failed"
    unfinished  \* the queue's count of items put and not yet marked task_done()

agentVars == <<kind, smart, task, tasks, ntasks, client, nclients, queue, blocked,
               nitems, payload, fut, nset, proc, calls, owner, lastOp, madeLive,
               atStop, outcome, unfinished>>

\* The hook server (iflow_hook_server.py)
VARIABLES
    quibblers,  \* _quibblers: session id -> agent (0: no entry)
    agents,     \* every IFlowQuibblerHook object constructed so far
    nagents,    \* how many were constructed
    bg,         \* the detached _process_event_in_background tasks
    ncalls,     \* how many hook requests were handled
    ready,      \* the event loop's queue of tasks ready to run, oldest first
    running,    \* the task the event loop is running (0: none)
    shut        \* the shutdown loop of lifespan: its position and what is
                \* left of list(_quibblers.items())

regVars == <<quibblers, agents, nagents, bg, ncalls, ready, running, shut>>

\* The conversation context of an iFlow agent (iflow_agent.py)
VARIABLES
    autoSummary, \* config.enable_auto_summary
    context,     \* self.context: messages, summary, total_reviews
    qpc,         \* where the caller of the context is: "idle", "summary", "chat"
    direct,      \* create_summary was called on its own, not by _query_iflow
    asked,       \* the input of the last summarizer call
    nsummary,    \* how many summarizer calls were made
    sent,        \* the messages of the last chat_completion call
    nchat,       \* how many chat_completion calls were made
    nturns,      \* how many turns were added; turn n has content id n
    nfail,       \* how many backend calls have failed
    lastCtx,     \* how the last context operation ended
    discarded,   \* content ids of the turns removed from the context
    covered,     \* content ids given to a summarizer call whose output was stored
    answered,    \* the output of the last summarizer call that returned
    compactedAt  \* nturns when the turns were last replaced (0: never)

ctxVars == <<autoSummary, context, qpc, direct, asked, nsummary, sent, nchat,
             nturns, nfail, lastCtx, discarded, covered, answered, compactedAt>>

\* A Bedrock conversation (clients.py)
VARIABLES
    script,     \* the provider's replies, in order: each a list of content blocks
    history,    \* self.conversation_history
    bpc,        \* where receive_response is: "invoke", "tools", "done", "raised"
    pending,    \* the tool_use blocks of the last reply not yet executed
    results,    \* tool_results collected for the last reply
    ninvoke,    \* how many invoke_model calls were made
    executed,   \* the _execute_tool calls made, in order
    yielded     \* the AssistantMessages yielded: each the texts of its blocks

bedVars == <<script, history, bpc, pending, results, ninvoke, executed, yielded>>

\* The feedback files and the notify step (hook_display.py)
VARIABLES
    file,       \* the feedback file of each path: 0 is absent, n the n-th text written
    nfeedback,  \* how many feedback texts were written
    disp,       \* the display_feedback runs (one process each)
    ndisp,      \* how many were started
    emitted     \* what the runs printed, in order

notifyVars == <<file, nfeedback, disp, ndisp, emitted>>

\* Configuration loading (agent.py, iflow_agent.py)
VARIABLES
    projectConfig, \* the config file of the project directory
    globalConfig,  \* the config file of the home directory
    loaded         \* what each loader returned ("none": not called)

cfgVars == <<projectConfig, globalConfig, loaded>>

\* BedrockClient.__init__ (clients.py)
VARIABLES
    modelName,  \* the model argument
    modelId     \* self.bedrock_model_id (NoModel: not set yet)

mapVars == <<modelName, modelId>>

\* One streamed chat_completion call and its caller (iflow_client.py)
VARIABLES
    lines,        \* the lines of the HTTP response, in order
    pos,          \* how many lines aiter_lines() has delivered
    spc,          \* the call: "stream", "done" (the generator ended), "raised"
    chunks,       \* the chunks yielded to the caller
    responseText, \* response_text of the caller: the pieces appended, in order
    warnings      \* how many "Failed to parse chunk" warnings were logged

streamVars == <<lines, pos, spc, chunks, responseText, warnings>>

\* The Critic agent (critic/critic.py)
VARIABLES
    critic,       \* the Critic object: client, task, queue
    criticTask,   \* the Task object of self.task: its state and position
    criticLog     \* what happened: sessions opened and closed, events, calls

criticVars == <<critic, criticTask, criticLog>>

auxVars == <<notifyVars, cfgVars, mapVars, streamVars, criticVars>>

vars == <<agentVars, regVars, ctxVars, bedVars, auxVars>>

\* ------------------------------------------------------------ asyncio
\* asyncio.Queue(): maxsize 0 means the queue is unbounded.
QueueMaxsize == 0

QueueFullBounded(q) == Len(q) >= 1

\* Queue.full()
QueueFull(q) == QueueMaxsize > 0 /\ Len(q) >= QueueMaxsize

QueueGetLifo(q) == q[Len(q)]

\* Queue.get() on a non-empty queue: the oldest item.
QueueGet(q) == Head(q)

\* The queue after Queue.get() removed item x.
QueueRest(q, x) == SelectSeq(q, LAMBDA y : y # x)

Range(q) == {q[n] : n \in DOMAIN q}

\* Future.set_result / set_exception succeed on a pending future only; on a
\* done (here: cancelled) future they raise InvalidStateError.
FutureSettable(f) == f = "pending"

\* A Task that has not finished.
Live(t) == tasks[t].st = "run"

LiveTasks == {t \in TaskIds : Live(t)}

\* Tasks inside a backend exchange (the startup message or a work item).
InCall(t) == Live(t) /\ tasks[t].pc \in {"startup", "call"}

\* ---------------------------------------------------- smart filtering
ShouldProcessEventCriticalOnly(evt) ==
    ~smart \/ evt.event \in {"PostToolUse", "Stop", "UserPromptSubmit"}

\* _should_process_event
ShouldProcessEvent(evt) ==
    IF ~smart THEN TRUE
    ELSE IF evt.event \in {"PostToolUse", "Stop", "UserPromptSubmit"} THEN TRUE
    ELSE IF evt.tool_name \in {"Write", "Edit", "MultiEdit"} THEN TRUE
    ELSE FALSE

\* ----------------------------------------------------------- lifecycle
AlreadyStartedNever == FALSE

\* start(): "if self.task is not None: return"
AlreadyStarted == task # 0

\* start()
Start ==
    /\ owner = "idle"
    /\ IF AlreadyStarted
       THEN /\ lastOp' = "start_noop"
            /\ UNCHANGED <<task, tasks, ntasks, client, nclients>>
       ELSE /\ ntasks < MaxTasks
            /\ \E creds \in BOOLEAN :
                 IF IsIFlow(kind) /\ ~creds
                 THEN \* load_iflow_auth() raises ValueError
                      /\ lastOp' = "start_raised"
                      /\ UNCHANGED <<task, tasks, ntasks, client, nclients>>
                 ELSE /\ ntasks' = ntasks + 1
                      /\ tasks' = [tasks EXCEPT ![ntasks + 1] = NewTask]
                      /\ task' = ntasks + 1
                      /\ client' = IF IsIFlow(kind) THEN "open" ELSE client
                      /\ nclients' = IF IsIFlow(kind) THEN nclients + 1 ELSE nclients
                      /\ lastOp' = "start_new"
    /\ UNCHANGED <<kind, smart, queue, blocked, nitems, payload, fut, nset, proc,
                   calls, owner, madeLive, atStop, outcome, unfinished>>

StopFuturesCancelQueued(f, q) ==
    [i \in DOMAIN f |->
        IF f[i] = "pending" /\ \E n \in DOMAIN q : q[n] = i THEN "cancelled" ELSE f[i]]

\* The reply futures after a step of stop(): stop() cancels the task,
\* awaits it and releases the client; it has no statement for the queue
\* or for a future.
StopFutures(f, q) == f

\* The rest of stop() once "await self.task" has returned or raised for a
\* task that ended as st.
StopFinish(st) ==
    IF st = "exc"
    THEN \* the task's exception is raised by "await self.task"; only
         \* CancelledError is suppressed
         /\ lastOp' = "stop_raised"
         /\ UNCHANGED <<task, client>>
    ELSE /\ client' = IF IsIFlow(kind) /\ client # "none" THEN "closed" ELSE client
         /\ task' = 0
         /\ lastOp' = "stop_ok"

\* stop() up to its first suspension
Stop ==
    /\ owner = "idle"
    /\ IF task = 0
       THEN /\ lastOp' = "stop_noop"
            /\ UNCHANGED <<task, tasks, client, owner>>
       ELSE IF Live(task)
       THEN \* self.task.cancel(); await self.task
            /\ tasks' = [tasks EXCEPT ![task].cancel = TRUE]
            /\ owner' = "stopping"
            /\ lastOp' = "stopping"
            /\ UNCHANGED <<task, client>>
       ELSE \* cancel() of a finished task does nothing and the await does
            \* not suspend
            /\ StopFinish(tasks[task].st)
            /\ UNCHANGED <<tasks, owner>>
    /\ atStop' = {i \in ItemIds : fut[i] = "pending"}
    /\ fut' = StopFutures(fut, queue)
    /\ UNCHANGED <<kind, smart, ntasks, nclients, queue, blocked, nitems, payload,
                   nset, proc, calls, madeLive, outcome, unfinished>>

\* stop() resumes when the cancelled task has finished
StopResume ==
    /\ owner = "stopping"
    /\ ~Live(task)
    /\ StopFinish(tasks[task].st)
    /\ owner' = "idle"
    /\ fut' = StopFutures(fut, queue)
    /\ UNCHANGED <<kind, smart, tasks, ntasks, nclients, queue, blocked, nitems,
                   payload, nset, proc, calls, madeLive, atStop, outcome,
                   unfinished>>

\* ------------------------------------------------------------- callers
\* queue.put(item) by a review() or enqueue() call that got id i
Put(i, item) ==
    /\ nitems' = i
    /\ payload' = [payload EXCEPT ![i] = item]
    /\ IF QueueFull(queue)
       THEN /\ blocked' = blocked \cup {i}
            /\ proc' = [proc EXCEPT ![i] = "blocked"]
            /\ UNCHANGED <<queue, unfinished>>
       ELSE /\ queue' = Append(queue, i)
            /\ proc' = [proc EXCEPT ![i] = "queued"]
            /\ unfinished' = unfinished + 1
            /\ UNCHANGED blocked
    /\ madeLive' = IF \E t \in TaskIds : Live(t) /\ ~tasks[t].cancel
                                         /\ tasks[t].pc \in {"get", "call"}
                   THEN madeLive \cup {i} ELSE madeLive

\* QuibblerMCP.review / IFlowQuibblerMCP.review up to "await response_future"
Review ==
    /\ IsMCP(kind)
    /\ ntasks > 0
    /\ nitems < MaxItems
    /\ Put(nitems + 1, ReviewItem)
    /\ fut' = [fut EXCEPT ![nitems + 1] = "pending"]
    /\ UNCHANGED <<kind, smart, task, tasks, ntasks, client, nclients, nset, calls,
                   owner, lastOp, atStop, outcome>>

\* QuibblerHook.enqueue / IFlowQuibblerHook.enqueue
Enqueue ==
    /\ ~IsMCP(kind)
    /\ ntasks > 0
    /\ nitems < MaxItems
    /\ \E evt \in Events : Put(nitems + 1, evt)
    /\ UNCHANGED <<kind, smart, task, tasks, ntasks, client, nclients, fut, nset,
                   calls, owner, lastOp, atStop, outcome>>

\* The task awaiting review() is cancelled: its reply future is cancelled.
CancelCaller ==
    /\ \E i \in ItemIds :
         /\ fut[i] = "pending"
         /\ fut' = [fut EXCEPT ![i] = "cancelled"]
    /\ UNCHANGED <<kind, smart, task, tasks, ntasks, client, nclients, queue, blocked,
                   nitems, payload, nset, proc, calls, owner, lastOp, madeLive,
                   atStop, outcome, unfinished>>

\* ------------------------------------------------------- consumer task
\* What the other agent fields look like when only tasks, queue, fut, ...
\* change in a consumer step.
ConsumerFrame ==
    UNCHANGED <<kind, smart, task, ntasks, client, nclients, nitems, payload,
                owner, lastOp, madeLive, atStop>>

\* The pc of a task that has made its working directory: the Claude agents
\* open the SDK session first, the iFlow agents send the startup message.
FirstPcLoop(k) == "get"

FirstPc(k) == IF IsIFlow(k) THEN "startup" ELSE "connect"

\* _run up to its first suspension: mkdir and the system prompt, which may
\* raise outside every try block, then the first await.
RunBegin(t) ==
    /\ Live(t) /\ ~tasks[t].cancel
    /\ tasks[t].pc = "new"
    /\ \E ok \in BOOLEAN :
         IF ~ok
         THEN /\ tasks' = [tasks EXCEPT ![t].st = "exc", ![t].pc = "end"]
              /\ UNCHANGED calls
         ELSE LET p == FirstPc(kind) IN
              /\ tasks' = [tasks EXCEPT ![t].pc = p,
                              ![t].startup = IF p = "startup" THEN "sent" ELSE @]
              /\ calls' = IF p = "startup" THEN Append(calls, 0) ELSE calls
    /\ UNCHANGED <<queue, blocked, fut, nset, proc, outcome, unfinished>>
    /\ ConsumerFrame

\* Quibbler._run: "async with ClaudeSDKClient(options) as client" connects,
\* then _send_startup_message queries; a failure is caught by _run's
\* "except Exception" and the task returns.
Connect(t) ==
    /\ Live(t) /\ ~tasks[t].cancel
    /\ tasks[t].pc = "connect"
    /\ \E ok \in BOOLEAN :
         IF ok
         THEN /\ tasks' = [tasks EXCEPT ![t].pc = "startup", ![t].conn = TRUE,
                                        ![t].startup = "sent"]
              /\ calls' = Append(calls, 0)
         ELSE /\ tasks' = [tasks EXCEPT ![t].st = "ok", ![t].pc = "end"]
              /\ UNCHANGED calls
    /\ UNCHANGED <<queue, blocked, fut, nset, proc, outcome, unfinished>>
    /\ ConsumerFrame

\* The startup exchange ends.  Claude agents: a failure leaves the "async
\* with" and is caught by _run, which returns.  iFlow agents: a failure is
\* logged and the loop is entered all the same.
StartupReturns(t) ==
    /\ Live(t) /\ ~tasks[t].cancel
    /\ tasks[t].pc = "startup"
    /\ \E ok \in BOOLEAN :
         IF ok
         THEN tasks' = [tasks EXCEPT ![t].pc = "get", ![t].startup = "consumed"]
         ELSE IF IsIFlow(kind)
         THEN tasks' = [tasks EXCEPT ![t].pc = "get", ![t].startup = "failed"]
         ELSE tasks' = [tasks EXCEPT ![t].st = "ok", ![t].pc = "end",
                                     ![t].conn = FALSE, ![t].startup = "failed"]
    /\ UNCHANGED <<queue, blocked, fut, nset, proc, calls, outcome,
                   unfinished>>
    /\ ConsumerFrame

\* A suspended put() resumes when get() made room.
Refill(q) ==
    IF blocked # {} /\ ~QueueFull(q)
    THEN LET b == CHOOSE x \in blocked : \A y \in blocked : x <= y
         IN  [q |-> Append(q, b), blocked |-> blocked \ {b},
              proc |-> [proc EXCEPT ![b] = "queued"]]
    ELSE [q |-> q, blocked |-> blocked, proc |-> proc]

\* "await self.queue.get()" returns an item; the hook agent of iFlow skips
\* it (continue, then task_done) when _should_process_event says so, every
\* other item goes to the backend.
Dequeue(t) ==
    /\ Live(t) /\ ~tasks[t].cancel
    /\ tasks[t].pc = "get"
    /\ queue # << >>
    /\ LET i == QueueGet(queue)
           r == Refill(QueueRest(queue, i))
       IN  /\ queue' = r.q
           /\ blocked' = r.blocked
           /\ IF kind = "IFlowQuibblerHook" /\ ~ShouldProcessEvent(payload[i])
              THEN \* continue: the finally block calls task_done()
                   /\ proc' = [r.proc EXCEPT ![i] = "skipped"]
                   /\ unfinished' = unfinished + Cardinality(blocked \ r.blocked) - 1
                   /\ UNCHANGED <<tasks, calls>>
              ELSE /\ proc' = [r.proc EXCEPT ![i] = "inflight"]
                   /\ unfinished' = unfinished + Cardinality(blocked \ r.blocked)
                   /\ tasks' = [tasks EXCEPT ![t].pc = "call", ![t].item = i]
                   /\ calls' = Append(calls, i)
    /\ UNCHANGED <<fut, nset, outcome>>
    /\ ConsumerFrame

\* The task after an exception left the while loop: _run of the Claude
\* agents catches it and returns, _run of the iFlow agents lets it out.
LoopEscaped(t) ==
    IF IsIFlow(kind)
    THEN [tasks EXCEPT ![t].st = "exc", ![t].pc = "end", ![t].item = 0]
    ELSE [tasks EXCEPT ![t].st = "ok", ![t].pc = "end", ![t].item = 0,
                       ![t].conn = FALSE]

RetryOnFailureAlways == TRUE

ReplyFutureNewest(i) == nitems

\* The future that was dequeued with request i: the second component of
\* the tuple that review() put on the queue.
ReplyFuture(i) == i

\* Whether a backend call that raised is made again for the same item:
\* the exception is logged and raised to the loop, which goes on with the
\* next item.
RetryOnFailure == FALSE

\* The backend call of the dequeued item returns (ok) or raises.  MCP:
\* set_result(feedback) / in the except block set_exception(e); either
\* raises InvalidStateError when the future is already done, and from the
\* except block nothing catches it.  Hook: the reply is logged, an
\* exception is logged.
CallReturns(t) ==
    /\ Live(t) /\ ~tasks[t].cancel
    /\ tasks[t].pc = "call"
    /\ LET i == tasks[t].item IN
       \E ok \in BOOLEAN :
         IF ~ok /\ RetryOnFailure
         THEN \* the call is made again for the same item
              /\ calls' = Append(calls, i)
              /\ UNCHANGED <<tasks, proc, fut, nset, outcome, unfinished>>
         ELSE
         /\ proc' = [proc EXCEPT ![i] = "completed"]
         /\ outcome' = [outcome EXCEPT ![i] = IF ok THEN "ok" ELSE "failed"]
         /\ unfinished' = unfinished - 1
         /\ UNCHANGED calls
         /\ IF IsMCP(kind)
            THEN IF FutureSettable(fut[ReplyFuture(i)])
                 THEN /\ fut' = [fut EXCEPT ![ReplyFuture(i)] =
                                              IF ok THEN "result" ELSE "exception"]
                      /\ nset' = [nset EXCEPT ![ReplyFuture(i)] = @ + 1]
                      /\ tasks' = [tasks EXCEPT ![t].pc = "get", ![t].item = 0]
                 ELSE /\ tasks' = LoopEscaped(t)
                      /\ UNCHANGED <<fut, nset>>
            ELSE /\ tasks' = [tasks EXCEPT ![t].pc = "get", ![t].item = 0]
                 /\ UNCHANGED <<fut, nset>>
    /\ UNCHANGED <<queue, blocked>>
    /\ ConsumerFrame

\* The CancelledError of stop() reaches the task at the await it is
\* suspended in: "except Exception" does not catch it, the finally blocks
\* run (task_done, the SDK session is left), the task ends cancelled.
Cancelled(t) ==
    /\ Live(t) /\ tasks[t].cancel
    /\ tasks' = [tasks EXCEPT ![t].st = "cancelled", ![t].pc = "end",
                              ![t].item = 0, ![t].conn = FALSE]
    /\ proc' = IF tasks[t].item # 0
               THEN [proc EXCEPT ![tasks[t].item] = "cut"] ELSE proc
    /\ unfinished' = IF tasks[t].item # 0 THEN unfinished - 1 ELSE unfinished
    /\ UNCHANGED <<queue, blocked, fut, nset, calls, outcome>>
    /\ ConsumerFrame

Consumer ==
    \E t \in TaskIds :
        \/ RunBegin(t)
        \/ Connect(t)
        \/ StartupReturns(t)
        \/ Dequeue(t)
        \/ CallReturns(t)
        \/ Cancelled(t)

\* ------------------------------------------------------- specification
\* The server before its first request.
RegistryEmpty ==
    /\ quibblers = [k \in Keys |-> 0]
    /\ agents = [a \in CallIds |-> NoAgent]
    /\ nagents = 0
    /\ bg = [c \in CallIds |-> NoBg]
    /\ ncalls = 0
    /\ ready = << >>
    /\ running = 0
    /\ shut = NoShutdown

\* ContextManager() of a new agent, default config.
ContextNew ==
    /\ context = [messages |-> << >>, summary |-> NoSummary, total_reviews |-> 0]
    /\ qpc = "idle"
    /\ direct = FALSE
    /\ asked = NoPrompt
    /\ nsummary = 0
    /\ sent = << >>
    /\ nchat = 0
    /\ nturns = 0
    /\ nfail = 0
    /\ lastCtx = "none"
    /\ discarded = {}
    /\ covered = {}
    /\ answered = ""
    /\ compactedAt = 0

\* A BedrockClient after query(prompt) whose provider will answer nothing.
BedrockIdle ==
    /\ script = << >>
    /\ history = <<UserPrompt>>
    /\ bpc = "done"
    /\ pending = << >>
    /\ results = << >>
    /\ ninvoke = 0
    /\ executed = << >>
    /\ yielded = << >>

\* Paths of feedback files: .quibbler/<session_id>.txt of each session and
\* .critic-messages.txt.
FeedbackFiles == Keys \cup {"critic"}

DisplayIds == 1..MaxDisplays

\* No feedback was written and no notify step has run.
NotifyIdle ==
    /\ file = [f \in FeedbackFiles |-> 0]
    /\ nfeedback = 0
    /\ disp = [d \in DisplayIds |-> NoDisplay]
    /\ ndisp = 0
    /\ emitted = << >>

Loaders == {"load_config", "load_iflow_quibbler_config"}

\* No config file exists and no loader was called.
ConfigIdle ==
    /\ projectConfig = AbsentFile
    /\ globalConfig = AbsentFile
    /\ loaded = [l \in Loaders |-> NotLoaded]

\* No BedrockClient was constructed.
MappingIdle ==
    /\ modelName = NoModel
    /\ modelId = NoModel

\* No chat_completion call is in progress.
StreamIdle ==
    /\ lines = << >>
    /\ pos = 0
    /\ spc = "done"
    /\ chunks = << >>
    /\ responseText = << >>
    /\ warnings = 0

\* The Task object before _run has run; "none": no task was created.
NoCriticTask == [st |-> "none", pc |-> "end", item |-> 0, cancel |-> FALSE]

\* A Critic as the dataclass constructs it: no client, no task, an empty
\* queue.
CriticIdle ==
    /\ critic = [client |-> "none", task |-> FALSE, queue |-> << >>]
    /\ criticTask = NoCriticTask
    /\ criticLog = [constructed |-> 0, entered |-> 0, exited |-> 0,
                    enqueued |-> 0, calls |-> << >>, raised |-> {}, done |-> {},
                    owner |-> "idle", lastOp |-> "none"]

AuxIdle == NotifyIdle /\ ConfigIdle /\ MappingIdle /\ StreamIdle /\ CriticIdle

Init ==
    /\ kind \in Kinds
    /\ smart \in (IF kind = "IFlowQuibblerHook" THEN BOOLEAN ELSE {TRUE})
    /\ task = 0
    /\ tasks = [t \in TaskIds |-> NoTask]
    /\ ntasks = 0
    /\ client = "none"
    /\ nclients = 0
    /\ queue = << >>
    /\ blocked = {}
    /\ nitems = 0
    /\ payload = [i \in ItemIds |-> NoItem]
    /\ fut = [i \in ItemIds |-> "none"]
    /\ nset = [i \in ItemIds |-> 0]
    /\ proc = [i \in ItemIds |-> "none"]
    /\ calls = << >>
    /\ owner = "idle"
    /\ lastOp = "none"
    /\ madeLive = {}
    /\ atStop = {}
    /\ outcome = [i \in ItemIds |-> "none"]
    /\ unfinished = 0
    /\ RegistryEmpty
    /\ autoSummary = TRUE
    /\ ContextNew
    /\ BedrockIdle
    /\ AuxIdle

AgentNext ==
    \/ Start
    \/ Stop
    \/ StopResume
    \/ Review
    \/ Enqueue
    \/ CancelCaller
    \/ Consumer

Next == AgentNext /\ UNCHANGED <<regVars, ctxVars, bedVars, auxVars>>

Spec == Init /\ [][Next]_vars

\* The event loop runs every task that can run, and a stop() that can
\* resume does; callers and the owner are free to do nothing.
FairSpec == Spec /\ WF_vars(Consumer /\ UNCHANGED <<regVars, ctxVars, bedVars, auxVars>>)
                 /\ WF_vars(StopResume /\ UNCHANGED <<regVars, ctxVars, bedVars, auxVars>>)

\* ------------------------------------------------------------ registry
\* Whether "await quibbler.start()" gives the event loop a chance to run
\* another task: IFlowQuibbler.start has no await in its body, so it
\* does not.
StartSuspendsAlways == TRUE

StartSuspends == FALSE

\* Task c is the one the event loop runs now or picks next.
Scheduled(c) ==
    \/ running = c
    \/ running = 0 /\ ready # << >> /\ Head(ready) = c

\* The ready queue once c runs.
ReadyAfter(c) == IF running = c THEN ready ELSE Tail(ready)

ReadyPush(r, c) == <<c>> \o r

\* asyncio.create_task: the new task goes to the end of the event loop's
\* ready queue, which runs its entries first in, first out.
ReadyAppend(r, c) == Append(r, c)

RegFrame == UNCHANGED <<agentVars, ctxVars, bedVars, auxVars>>

\* Request bodies: a JSON object with source_path, one without it, and
\* bytes that are no JSON.
Bodies == {"valid", "nosource", "badjson"}

HookAwaitsBackgroundAlways == TRUE

\* Whether hook() waits for _process_event_in_background before it
\* returns: it hands the coroutine to asyncio.create_task and returns.
HookAwaitsBackground == FALSE

\* The return value of hook().
HookResponse(session_id) == [status |-> "ok", session_id |-> session_id]

\* What the client gets when hook() raises: HTTPException(400), or the
\* server's answer to an unhandled exception (json.loads).
HookError(body) ==
    [status |-> IF body = "nosource" THEN "400" ELSE "500", session_id |-> ""]

\* hook(): POST /hook/{session_id}.  A body that does not parse or has no
\* source_path ends the request with an error before any task is made;
\* else the detached task is created and the response returned.
Hook ==
    /\ running = 0
    /\ shut.pc = "none"
    /\ ncalls < MaxCalls
    /\ \E k \in Keys, body \in Bodies :
         /\ ncalls' = ncalls + 1
         /\ IF body = "valid"
            THEN /\ bg' = [bg EXCEPT ![ncalls + 1] =
                            [NoBg EXCEPT !.pc = "lookup", !.key = k,
                                         !.resp = IF HookAwaitsBackground
                                                  THEN NoResponse
                                                  ELSE HookResponse(k)]]
                 /\ ready' = ReadyAppend(ready, ncalls + 1)
            ELSE /\ bg' = [bg EXCEPT ![ncalls + 1] =
                            [NoBg EXCEPT !.pc = "rejected", !.key = k,
                                         !.resp = HookError(body)]]
                 /\ UNCHANGED ready
    /\ UNCHANGED <<quibblers, agents, nagents, running, shut>>
    /\ RegFrame

\* The response of request c once its background task has ended, had
\* hook() waited for it.
Responded(c) ==
    IF HookAwaitsBackground THEN HookResponse(bg[c].key) ELSE bg[c].resp

\* get_or_create_quibbler: quibbler = _quibblers.get(session_id)
Lookup(c) ==
    /\ Scheduled(c)
    /\ bg[c].pc = "lookup"
    /\ running' = c
    /\ ready' = ReadyAfter(c)
    /\ bg' = [bg EXCEPT ![c].quibbler = quibblers[bg[c].key],
                        ![c].pc = IF quibblers[bg[c].key] = 0
                                  THEN "construct" ELSE "enqueue"]
    /\ UNCHANGED <<quibblers, agents, nagents, ncalls, shut>>
    /\ RegFrame

\* get_or_create_quibbler: the prompt and the config are loaded and the
\* agent object is constructed.
Construct(c) ==
    /\ Scheduled(c)
    /\ bg[c].pc = "construct"
    /\ running' = c
    /\ ready' = ReadyAfter(c)
    /\ nagents' = nagents + 1
    /\ agents' = [agents EXCEPT ![nagents + 1] = [NoAgent EXCEPT !.key = bg[c].key]]
    /\ bg' = [bg EXCEPT ![c].quibbler = nagents + 1, ![c].pc = "start"]
    /\ UNCHANGED <<quibblers, ncalls, shut>>
    /\ RegFrame

\* Where credentials may be: IFLOW_API_KEY (unset, empty, set), the user's
\* settings.json (no file, unreadable as JSON, without apiKey, with apiKey)
\* and the project's, which is read by the same code (no file, with apiKey).
CredentialSources ==
    [env : {"absent", "empty", "key"},
     user : {"absent", "invalid", "nokey", "key"},
     project : {"absent", "key"}]

LoadIFlowAuthDefault(src) ==
    IF src.user = "key" THEN "user"
    ELSE IF src.project = "key" THEN "project"
    ELSE "env"

\* load_iflow_auth: the source the credentials are taken from, or "raise"
\* (ValueError).
LoadIFlowAuth(src) ==
    IF src.env = "key" THEN "env"
    ELSE IF src.user = "key" THEN "user"
    ELSE IF src.project = "key" THEN "project"
    ELSE "raise"

\* get_or_create_quibbler: await quibbler.start().  Without credentials
\* load_iflow_auth raises; the exception leaves get_or_create_quibbler
\* and is logged by _process_event_in_background, which ends.
StartAgent(c) ==
    /\ Scheduled(c)
    /\ bg[c].pc = "start"
    /\ LET a == bg[c].quibbler IN
       \E src \in CredentialSources :
         LET creds == LoadIFlowAuth(src) # "raise" IN
         IF creds
         THEN /\ agents' = [agents EXCEPT ![a].startCalls = @ + 1,
                                          ![a].client = TRUE, ![a].task = TRUE]
              /\ bg' = [bg EXCEPT ![c].pc = "insert", ![c].auth = src]
              /\ running' = IF StartSuspends THEN 0 ELSE c
              /\ ready' = IF StartSuspends THEN Append(ReadyAfter(c), c)
                                            ELSE ReadyAfter(c)
         ELSE /\ agents' = [agents EXCEPT ![a].startCalls = @ + 1]
              /\ bg' = [bg EXCEPT ![c].pc = "failed", ![c].auth = src,
                                  ![c].resp = Responded(c)]
              /\ running' = 0
              /\ ready' = ReadyAfter(c)
    /\ UNCHANGED <<quibblers, nagents, ncalls, shut>>
    /\ RegFrame

\* get_or_create_quibbler: _quibblers[session_id] = quibbler
Insert(c) ==
    /\ Scheduled(c)
    /\ bg[c].pc = "insert"
    /\ running' = c
    /\ ready' = ReadyAfter(c)
    /\ quibblers' = [quibblers EXCEPT ![bg[c].key] = bg[c].quibbler]
    /\ bg' = [bg EXCEPT ![c].pc = "enqueue"]
    /\ UNCHANGED <<agents, nagents, ncalls, shut>>
    /\ RegFrame

\* get_or_create_quibbler returns the agent and
\* _process_event_in_background puts the event on its queue and ends.
EnqueueEvent(c) ==
    /\ Scheduled(c)
    /\ bg[c].pc = "enqueue"
    /\ running' = 0
    /\ ready' = ReadyAfter(c)
    /\ agents' = [agents EXCEPT ![bg[c].quibbler].queue = Append(@, c)]
    /\ bg' = [bg EXCEPT ![c].pc = "done", ![c].ret = bg[c].quibbler,
                        ![c].resp = Responded(c)]
    /\ UNCHANGED <<quibblers, nagents, ncalls, shut>>
    /\ RegFrame

Background ==
    \E c \in CallIds :
        \/ Lookup(c)
        \/ Construct(c)
        \/ StartAgent(c)
        \/ Insert(c)
        \/ EnqueueEvent(c)

InitRegistry ==
    /\ RegistryEmpty
    /\ kind = "IFlowQuibblerHook"
    /\ smart = TRUE
    /\ task = 0
    /\ tasks = [t \in TaskIds |-> NoTask]
    /\ ntasks = 0
    /\ client = "none"
    /\ nclients = 0
    /\ queue = << >>
    /\ blocked = {}
    /\ nitems = 0
    /\ payload = [i \in ItemIds |-> NoItem]
    /\ fut = [i \in ItemIds |-> "none"]
    /\ nset = [i \in ItemIds |-> 0]
    /\ proc = [i \in ItemIds |-> "none"]
    /\ calls = << >>
    /\ owner = "idle"
    /\ lastOp = "none"
    /\ madeLive = {}
    /\ atStop = {}
    /\ outcome = [i \in ItemIds |-> "none"]
    /\ unfinished = 0
    /\ autoSummary = TRUE
    /\ ContextNew
    /\ BedrockIdle
    /\ AuxIdle

NextRegistry ==
    \/ Hook
    \/ Background

SpecRegistry == InitRegistry /\ [][NextRegistry]_vars

\* ------------------------------------------------------------ shutdown
\* The id the event loop knows the lifespan task by.
ShutdownId == MaxCalls + 1

\* list(_quibblers.items()): the (session id, agent) pairs in the dict's
\* insertion order, which is the order the agents were constructed in.
Items ==
    LET ks == {k \in Keys : quibblers[k] # 0}
        n  == Cardinality(ks)
        ord == CHOOSE f \in [1..n -> ks] :
                  \A i, j \in 1..n : i < j => quibblers[f[i]] < quibblers[f[j]]
    IN  [i \in 1..n |-> <<ord[i], quibblers[ord[i]]>>]

\* lifespan after "yield": the snapshot of the registry is taken.
ShutdownBegin ==
    /\ running = 0
    /\ shut.pc = "none"
    /\ shut' = [pc |-> "loop", items |-> Items]
    /\ running' = ShutdownId
    /\ UNCHANGED <<quibblers, agents, nagents, bg, ncalls, ready>>
    /\ RegFrame

\* IFlowQuibbler.stop once "await self.task" is over, then
\* _quibblers.pop(sid, None) and the next iteration.
Stopped(k, a) ==
    /\ agents' = [agents EXCEPT ![a].task = FALSE, ![a].client = FALSE]
    /\ quibblers' = [quibblers EXCEPT ![k] = 0]
    /\ shut' = [pc |-> "loop", items |-> Tail(shut.items)]

\* "await quibbler.stop()" for the next pair of the snapshot.  The agent's
\* consumer task is running (st = "run": cancel it and wait, the event loop
\* runs the other ready tasks), has returned (st = "ok"), or has ended with
\* an exception (st = "exc": the await raises it and lifespan is left).
ShutdownStop ==
    /\ running = ShutdownId
    /\ shut.pc = "loop"
    /\ shut.items # << >>
    /\ LET k == Head(shut.items)[1]
           a == Head(shut.items)[2]
       IN  \E st \in {"run", "ok", "exc"} :
             IF st = "run"
             THEN /\ shut' = [shut EXCEPT !.pc = "await"]
                  /\ running' = 0
                  /\ ready' = Append(ready, ShutdownId)
                  /\ UNCHANGED <<agents, quibblers>>
             ELSE IF st = "ok"
             THEN /\ Stopped(k, a)
                  /\ UNCHANGED <<running, ready>>
             ELSE /\ shut' = [shut EXCEPT !.pc = "raised"]
                  /\ running' = 0
                  /\ UNCHANGED <<agents, quibblers, ready>>
    /\ UNCHANGED <<nagents, bg, ncalls>>
    /\ RegFrame

\* The cancelled consumer has finished and stop() resumes.
ShutdownResume ==
    /\ Scheduled(ShutdownId)
    /\ shut.pc = "await"
    /\ running' = ShutdownId
    /\ ready' = ReadyAfter(ShutdownId)
    /\ Stopped(Head(shut.items)[1], Head(shut.items)[2])
    /\ UNCHANGED <<nagents, bg, ncalls>>
    /\ RegFrame

\* The for loop is exhausted: "Cleanup complete".
ShutdownEnd ==
    /\ running = ShutdownId
    /\ shut.pc = "loop"
    /\ shut.items = << >>
    /\ shut' = [shut EXCEPT !.pc = "done"]
    /\ running' = 0
    /\ UNCHANGED <<quibblers, agents, nagents, bg, ncalls, ready>>
    /\ RegFrame

Shutdown ==
    \/ ShutdownBegin
    \/ ShutdownStop
    \/ ShutdownResume
    \/ ShutdownEnd

NextShutdown ==
    \/ Hook
    \/ Background
    \/ Shutdown

SpecShutdown == InitRegistry /\ [][NextShutdown]_vars

\* ------------------------------------------------- conversation context
MAX_MESSAGES_BEFORE_SUMMARY == 15

KEEP_RECENT_MESSAGES == 5

\* What the summarizer may answer; a reply without content chunks is "".
SummaryTexts == {"", "summary A", "summary B"}

\* The content of turn n (the texts are told apart by n).
TurnContent(n) == [label |-> "", id |-> n, text |-> ""]

\* The first message of every chat_completion call.
SystemPromptMessage ==
    [role |-> "system", content |-> [label |-> "system_prompt", id |-> 0, text |-> ""]]

\* Python's truth value of self.summary: None and "" are false.
Truthy(summary) == summary.set /\ summary.text # ""

\* ContextManager.add_message
AddMessage(c, role, n) ==
    [c EXCEPT !.messages = Append(@, [role |-> role, content |-> TurnContent(n)])]

ShouldSummarizeAtLeast(c) == Len(c.messages) >= MAX_MESSAGES_BEFORE_SUMMARY

\* ContextManager.should_summarize
ShouldSummarize(c) == Len(c.messages) > MAX_MESSAGES_BEFORE_SUMMARY

\* self.messages[:-KEEP_RECENT_MESSAGES]
OldMessages(m) ==
    IF Len(m) > KEEP_RECENT_MESSAGES
    THEN SubSeq(m, 1, Len(m) - KEEP_RECENT_MESSAGES) ELSE << >>

RecentMessagesFirst(m) ==
    IF Len(m) > KEEP_RECENT_MESSAGES THEN SubSeq(m, 1, KEEP_RECENT_MESSAGES) ELSE m

\* self.messages[-KEEP_RECENT_MESSAGES:]
RecentMessages(m) ==
    IF Len(m) > KEEP_RECENT_MESSAGES
    THEN SubSeq(m, Len(m) - KEEP_RECENT_MESSAGES + 1, Len(m)) ELSE m

\* msg.role.upper()
Upper(role) ==
    IF role = "user" THEN "USER"
    ELSE IF role = "assistant" THEN "ASSISTANT"
    ELSE "SYSTEM"

SummaryPromptNoPrevious(c) ==
    [prev |-> "None",
     old  |-> [i \in DOMAIN OldMessages(c.messages) |->
                 [role |-> Upper(OldMessages(c.messages)[i].role),
                  content |-> OldMessages(c.messages)[i].content]]]

\* create_summary: summary_prompt, with "Previous summary (if any):
\* {self.summary or "None"}" and the old turns as "ROLE: content".
SummaryPrompt(c) ==
    [prev |-> IF Truthy(c.summary) THEN c.summary.text ELSE "None",
     old  |-> [i \in DOMAIN OldMessages(c.messages) |->
                 [role |-> Upper(OldMessages(c.messages)[i].role),
                  content |-> OldMessages(c.messages)[i].content]]]

SummaryFailedDrops(c) == [c EXCEPT !.messages = RecentMessages(@)]

\* create_summary: "except Exception" logs and keeps the context.
SummaryFailed(c) == c

SummaryStoredKeepsAll(c, text) == [c EXCEPT !.summary = [set |-> TRUE, text |-> text]]

\* create_summary after the summarizer returned text.
SummaryStored(c, text) ==
    [c EXCEPT !.summary = [set |-> TRUE, text |-> text],
              !.messages = RecentMessages(@)]

GetContextMessagesSummaryLast(c) ==
    [i \in DOMAIN c.messages |->
        [role |-> c.messages[i].role, content |-> c.messages[i].content]]
    \o (IF Truthy(c.summary)
        THEN << [role |-> "system",
                 content |-> [label |-> "CONVERSATION HISTORY SUMMARY:", id |-> 0,
                              text |-> c.summary.text]] >>
        ELSE << >>)

\* ContextManager.get_context_messages
GetContextMessages(c) ==
    (IF Truthy(c.summary)
     THEN << [role |-> "system",
              content |-> [label |-> "CONVERSATION HISTORY SUMMARY:", id |-> 0,
                           text |-> c.summary.text]] >>
     ELSE << >>)
    \o [i \in DOMAIN c.messages |->
           [role |-> c.messages[i].role, content |-> c.messages[i].content]]

\* _query_iflow: the messages of the chat_completion call.
ChatMessages(c) == <<SystemPromptMessage>> \o GetContextMessages(c)

\* The content ids of a list of turns.
Ids(m) == {m[i].content.id : i \in DOMAIN m}

CtxFrame == UNCHANGED <<agentVars, regVars, bedVars, auxVars, autoSummary>>

\* _query_iflow up to its first await: the user turn is added, then the
\* summarizer is called when the context is large, else the backend.
QueryBegin ==
    /\ qpc = "idle"
    /\ nturns + 2 <= MaxTurns
    /\ LET c == AddMessage(context, "user", nturns + 1) IN
       /\ context' = c
       /\ nturns' = nturns + 1
       /\ IF autoSummary /\ ShouldSummarize(c)
          THEN /\ qpc' = "summary"
               /\ asked' = SummaryPrompt(c)
               /\ nsummary' = nsummary + 1
               /\ UNCHANGED <<sent, nchat>>
          ELSE /\ qpc' = "chat"
               /\ sent' = ChatMessages(c)
               /\ nchat' = nchat + 1
               /\ UNCHANGED <<asked, nsummary>>
    /\ direct' = FALSE
    /\ UNCHANGED <<nfail, lastCtx, discarded, covered, answered, compactedAt>>
    /\ CtxFrame

\* create_summary called on its own, up to its await.
CreateSummary ==
    /\ qpc = "idle"
    /\ IF ~ShouldSummarize(context)
       THEN /\ lastCtx' = "summary_noop"
            /\ UNCHANGED <<qpc, direct, asked, nsummary>>
       ELSE /\ qpc' = "summary"
            /\ direct' = TRUE
            /\ asked' = SummaryPrompt(context)
            /\ nsummary' = nsummary + 1
            /\ UNCHANGED lastCtx
    /\ UNCHANGED <<context, sent, nchat, nturns, nfail, discarded, covered,
                   answered, compactedAt>>
    /\ CtxFrame

\* client.simple_query returns the summary text or raises; create_summary
\* returns and, inside _query_iflow, the backend call for the item follows.
SummaryReturns ==
    /\ qpc = "summary"
    /\ \/ \E text \in SummaryTexts :
            /\ context' = SummaryStored(context, text)
            /\ answered' = text
            /\ discarded' = discarded \cup Ids(OldMessages(context.messages))
            /\ covered' = covered \cup Ids(asked.old)
            /\ compactedAt' = nturns
            /\ lastCtx' = "summary_ok"
            /\ UNCHANGED nfail
       \/ /\ nfail < MaxFailures
          /\ context' = SummaryFailed(context)
          /\ nfail' = nfail + 1
          /\ lastCtx' = "summary_failed"
          /\ UNCHANGED <<answered, discarded, covered, compactedAt>>
    /\ IF direct
       THEN /\ qpc' = "idle"
            /\ UNCHANGED <<sent, nchat>>
       ELSE /\ qpc' = "chat"
            /\ sent' = ChatMessages(context')
            /\ nchat' = nchat + 1
    /\ direct' = FALSE
    /\ UNCHANGED <<asked, nsummary, nturns>>
    /\ CtxFrame

\* chat_completion ends: the reply is added as the assistant turn, or the
\* exception is logged and raised to the caller of _query_iflow.
ChatReturns ==
    /\ qpc = "chat"
    /\ \/ /\ context' = [AddMessage(context, "assistant", nturns + 1)
                            EXCEPT !.total_reviews = @ + 1]
          /\ nturns' = nturns + 1
          /\ lastCtx' = "query_ok"
          /\ UNCHANGED nfail
       \/ /\ nfail < MaxFailures
          /\ nfail' = nfail + 1
          /\ lastCtx' = "query_raised"
          /\ UNCHANGED <<context, nturns>>
    /\ qpc' = "idle"
    /\ UNCHANGED <<direct, asked, nsummary, sent, nchat, discarded, covered,
                   answered, compactedAt>>
    /\ CtxFrame

\* An agent that was constructed and not started.
AgentNew(k) ==
    /\ kind = k
    /\ smart = TRUE
    /\ task = 0
    /\ tasks = [t \in TaskIds |-> NoTask]
    /\ ntasks = 0
    /\ client = "none"
    /\ nclients = 0
    /\ queue = << >>
    /\ blocked = {}
    /\ nitems = 0
    /\ payload = [i \in ItemIds |-> NoItem]
    /\ fut = [i \in ItemIds |-> "none"]
    /\ nset = [i \in ItemIds |-> 0]
    /\ proc = [i \in ItemIds |-> "none"]
    /\ calls = << >>
    /\ owner = "idle"
    /\ lastOp = "none"
    /\ madeLive = {}
    /\ atStop = {}
    /\ outcome = [i \in ItemIds |-> "none"]
    /\ unfinished = 0

InitContext ==
    /\ AgentNew("IFlowQuibblerMCP")
    /\ RegistryEmpty
    /\ autoSummary \in BOOLEAN
    /\ ContextNew
    /\ BedrockIdle
    /\ AuxIdle

NextContext ==
    \/ QueryBegin
    \/ CreateSummary
    \/ SummaryReturns
    \/ ChatReturns

SpecContext == InitContext /\ [][NextContext]_vars

\* ------------------------------------------------------ Bedrock client
\* Tool names a reply may ask for; "delete_file" is none of the client's.
ToolNames == {"read_file", "write_file", "delete_file"}

ReplyTexts == {"a", "b"}

ToolUseBlock(name) == [type |-> "tool_use", name |-> name, text |-> "", id |-> 0]

TextBlock(text) == [type |-> "text", name |-> "", text |-> text, id |-> 0]

ContentBlocks == {ToolUseBlock(n) : n \in ToolNames} \cup {TextBlock(t) : t \in ReplyTexts}

\* The sequences over S of length at most n.
SeqUpTo(S, n) == UNION {[1..m -> S] : m \in 0..n}

\* Replies that ask for at least one tool.
ToolTurns ==
    {c \in SeqUpTo(ContentBlocks, MaxBlocks) : \E i \in DOMAIN c : c[i].type = "tool_use"}

\* Replies of text blocks only.
TextTurns == SeqUpTo({TextBlock(t) : t \in ReplyTexts}, MaxBlocks)

\* Provider conversations: tool-use replies, then one text-only reply.
Scripts == {tt \o <<f>> : tt \in SeqUpTo(ToolTurns, MaxToolTurns), f \in TextTurns}

\* The n-th reply as the provider sends it: every block with its own id.
Reply(n) == [i \in DOMAIN script[n] |-> [script[n][i] EXCEPT !.id = n * 10 + i]]

ExecuteToolRaises(tool_name, ok) ==
    IF tool_name \in {"read_file", "write_file"} /\ ~ok THEN "raise"
    ELSE IF tool_name = "read_file" THEN "file content"
    ELSE IF tool_name = "write_file" THEN "Successfully wrote to file"
    ELSE "Unknown tool"

\* _execute_tool: ok is whether the file operation succeeds.
ExecuteTool(tool_name, ok) ==
    IF tool_name = "read_file"
    THEN IF ok THEN "file content" ELSE "Error reading file"
    ELSE IF tool_name = "write_file"
    THEN IF ok THEN "Successfully wrote to file" ELSE "Error writing file"
    ELSE "Unknown tool"

ToolUseBlocksFirst(content) ==
    LET all == SelectSeq(content, LAMBDA b : b.type = "tool_use")
    IN  IF all = << >> THEN << >> ELSE <<Head(all)>>

ToolUseBlocksNone(content) == << >>

\* receive_response: tool_use_blocks
ToolUseBlocks(content) == SelectSeq(content, LAMBDA b : b.type = "tool_use")

\* receive_response: the texts of the text blocks
TextsOf(content) ==
    LET tb == SelectSeq(content, LAMBDA b : b.type = "text")
    IN  [i \in DOMAIN tb |-> tb[i].text]

ToolResult(id, result) == [type |-> "tool_result", name |-> "", text |-> result, id |-> id]

BedFrame == UNCHANGED <<agentVars, regVars, ctxVars, auxVars, script>>

\* One pass of the while loop up to the tool executions: invoke_model
\* raises (logged and raised again) or returns the next reply, which is
\* appended to the history; without tool_use blocks its text is yielded.
Invoke ==
    /\ bpc = "invoke"
    /\ ninvoke < Len(script)
    /\ ninvoke' = ninvoke + 1
    /\ \/ /\ bpc' = "raised"
          /\ UNCHANGED <<history, pending, results, yielded>>
       \/ LET content == Reply(ninvoke + 1) IN
          /\ history' = Append(history, [role |-> "assistant", kind |-> "reply",
                                         content |-> content])
          /\ IF ToolUseBlocks(content) # << >>
             THEN /\ bpc' = "tools"
                  /\ pending' = ToolUseBlocks(content)
                  /\ results' = << >>
                  /\ UNCHANGED yielded
             ELSE /\ bpc' = "done"
                  /\ yielded' = IF TextsOf(content) # << >>
                                THEN Append(yielded, TextsOf(content)) ELSE yielded
                  /\ UNCHANGED <<pending, results>>
    /\ UNCHANGED executed
    /\ BedFrame

\* The for loop over tool_use_blocks: one _execute_tool call.  An exception
\* out of it would reach "except Exception: raise" of receive_response.
ExecuteToolBlock ==
    /\ bpc = "tools"
    /\ pending # << >>
    /\ LET b == Head(pending) IN
       \E ok \in BOOLEAN :
         LET result == ExecuteTool(b.name, ok) IN
         /\ executed' = Append(executed, [name |-> b.name, id |-> b.id, ok |-> ok,
                                          result |-> result])
         /\ IF result = "raise"
            THEN /\ bpc' = "raised"
                 /\ UNCHANGED <<pending, results>>
            ELSE /\ results' = Append(results, ToolResult(b.id, result))
                 /\ pending' = Tail(pending)
                 /\ UNCHANGED bpc
    /\ UNCHANGED <<history, ninvoke, yielded>>
    /\ BedFrame

\* The tool results go into the history as a user message; continue.
ToolsDone ==
    /\ bpc = "tools"
    /\ pending = << >>
    /\ history' = Append(history, [role |-> "user", kind |-> "tool_results",
                                   content |-> results])
    /\ bpc' = "invoke"
    /\ UNCHANGED <<pending, results, ninvoke, executed, yielded>>
    /\ BedFrame

\* query(prompt) was called on a connected client and receive_response is
\* at its first provider call.
InitBedrock ==
    /\ AgentNew("QuibblerMCP")
    /\ RegistryEmpty
    /\ autoSummary = TRUE
    /\ ContextNew
    /\ script \in Scripts
    /\ history = <<UserPrompt>>
    /\ bpc = "invoke"
    /\ pending = << >>
    /\ results = << >>
    /\ ninvoke = 0
    /\ executed = << >>
    /\ yielded = << >>
    /\ AuxIdle

NextBedrock ==
    \/ Invoke
    \/ ExecuteToolBlock
    \/ ToolsDone

SpecBedrock == InitBedrock /\ [][NextBedrock]_vars

\* A client used for several queries, as the consumer loops use it: each
\* query is followed by receive_response, and the next query comes when
\* that has ended or raised.
SessionScripts == {s \in Scripts : Len(s) <= 2}

\* query(prompt), then receive_response up to its first provider call.
Query ==
    /\ bpc \in {"done", "raised"}
    /\ Cardinality({h \in DOMAIN history : history[h].kind = "prompt"}) < MaxQueries
    /\ \E s \in SessionScripts : script' = SubSeq(script, 1, ninvoke) \o s
    /\ history' = Append(history, UserPrompt)
    /\ bpc' = "invoke"
    /\ UNCHANGED <<pending, results, ninvoke, executed, yielded>>
    /\ UNCHANGED <<agentVars, regVars, ctxVars, auxVars>>

InitBedrockSession == InitBedrock /\ script \in SessionScripts

NextBedrockSession ==
    \/ NextBedrock
    \/ Query

SpecBedrockSession == InitBedrockSession /\ [][NextBedrockSession]_vars

\* --------------------------------------------------------- notify step
Platforms == {"cursor", "claude"}

\* What a run reads from stdin: nothing, a JSON object without the id
\* field of its platform, or one with the id of a session.
Stdins == {"empty", "noid"} \cup Keys

\* How display_feedback is entered: by "quibbler hook notify", whose
\* cmd_hook_notify calls display_feedback() without the platform, by a
\* call that passes the platform, or as critic's display_feedback().
DisplayCalls ==
    {[by |-> "cmd_hook_notify", platform |-> "", stdin |-> "empty"]}
    \cup [by : {"call"}, platform : Platforms, stdin : Stdins]
    \cup {[by |-> "critic", platform |-> "critic", stdin |-> "empty"]}

\* The path display_feedback looks at, "" when it returns before that.
FeedbackPath(call) ==
    IF call.by = "critic" THEN "critic"
    ELSE IF call.stdin \in Keys THEN call.stdin
    ELSE ""

\* What display_feedback prints for the text it read.
Output(d, platform, feedback) ==
    IF platform = "cursor"
    THEN [run |-> d, channel |-> "stdout", format |-> "json",
          fields |-> {"followup_message"}, header |-> "QUIBBLER FEEDBACK",
          feedback |-> feedback]
    ELSE [run |-> d, channel |-> "stderr", format |-> "text", fields |-> {},
          header |-> IF platform = "critic" THEN "CRITIC FEEDBACK"
                     ELSE "QUIBBLER FEEDBACK",
          feedback |-> feedback]

NotifyFrame ==
    UNCHANGED <<agentVars, regVars, ctxVars, bedVars, cfgVars, mapVars, streamVars,
                criticVars>>

\* The reviewing agent writes a feedback text to a file with its Write
\* tool: the file is created or replaced.
WriteFeedback ==
    /\ nfeedback < MaxFeedback
    /\ \E f \in FeedbackFiles :
         file' = [file EXCEPT ![f] = nfeedback + 1]
    /\ nfeedback' = nfeedback + 1
    /\ UNCHANGED <<disp, ndisp, emitted>>
    /\ NotifyFrame

\* A notify process starts and runs display_feedback up to the exists()
\* test of the file; a call without the platform argument is a TypeError.
DisplayBegin ==
    /\ ndisp < MaxDisplays
    /\ ndisp' = ndisp + 1
    /\ \E call \in DisplayCalls :
         LET path == FeedbackPath(call) IN
         disp' = [disp EXCEPT ![ndisp + 1] =
                    IF call.by = "cmd_hook_notify"
                    THEN [NoDisplay EXCEPT !.pc = "end", !.ret = "TypeError"]
                    ELSE IF path = ""
                    THEN [NoDisplay EXCEPT !.pc = "end", !.ret = "0",
                                           !.platform = call.platform]
                    ELSE IF file[path] = 0
                    THEN [NoDisplay EXCEPT !.pc = "end", !.ret = "0", !.key = path,
                                           !.platform = call.platform]
                    ELSE [NoDisplay EXCEPT !.pc = "read", !.key = path,
                                           !.platform = call.platform]]
    /\ UNCHANGED <<file, nfeedback, emitted>>
    /\ NotifyFrame

\* read_text() and the prints.  read_text raises FileNotFoundError when
\* the file is gone.
DisplayRead(d) ==
    /\ disp[d].pc = "read"
    /\ IF file[disp[d].key] = 0
       THEN /\ disp' = [disp EXCEPT ![d].pc = "end", ![d].ret = "FileNotFoundError"]
            /\ UNCHANGED emitted
       ELSE /\ disp' = [disp EXCEPT ![d].pc = "unlink",
                                    ![d].feedback = file[disp[d].key]]
            /\ emitted' = Append(emitted,
                                 Output(d, disp[d].platform, file[disp[d].key]))
    /\ UNCHANGED <<file, nfeedback, ndisp>>
    /\ NotifyFrame

\* unlink() and "return 2".  unlink raises FileNotFoundError when the file
\* is gone.
DisplayUnlink(d) ==
    /\ disp[d].pc = "unlink"
    /\ IF file[disp[d].key] = 0
       THEN /\ disp' = [disp EXCEPT ![d].pc = "end", ![d].ret = "FileNotFoundError"]
            /\ UNCHANGED file
       ELSE /\ disp' = [disp EXCEPT ![d].pc = "end", ![d].ret = "2"]
            /\ file' = [file EXCEPT ![disp[d].key] = 0]
    /\ UNCHANGED <<nfeedback, ndisp, emitted>>
    /\ NotifyFrame

InitNotify ==
    /\ AgentNew("QuibblerHook")
    /\ RegistryEmpty
    /\ autoSummary = TRUE
    /\ ContextNew
    /\ BedrockIdle
    /\ NotifyIdle
    /\ ConfigIdle
    /\ MappingIdle
    /\ StreamIdle
    /\ CriticIdle

NextNotify ==
    \/ WriteFeedback
    \/ DisplayBegin
    \/ \E d \in DisplayIds : DisplayRead(d) \/ DisplayUnlink(d)

SpecNotify == InitNotify /\ [][NextNotify]_vars

\* ------------------------------------------------- configuration files
DEFAULT_MODEL == "claude-haiku-4-5-20251001"

DEFAULT_IFLOW_MODEL == "claude-haiku-4-5"

\* A config file: absent, present with content that json.load rejects, or
\* a JSON object, with or without the key "model" (model = "": without)
\* and with or without a key that is no field of the config class (extra).
ConfigFiles(m) ==
    {AbsentFile, [state |-> "unreadable", model |-> "", extra |-> FALSE]}
    \cup [state : {"json"}, model : {"", m}, extra : BOOLEAN]

\* The default model of a loader's config class.
DefaultModel(loader) ==
    IF loader = "load_config" THEN DEFAULT_MODEL ELSE DEFAULT_IFLOW_MODEL

\* Whether the try block of a loader returns a config for file f:
\* load_config reads keys with data.get and ignores the others;
\* load_iflow_quibbler_config calls IFlowQuibblerConfig(**data), a
\* TypeError for an unknown key, which "except Exception" catches.
Loads(loader, f) ==
    /\ f.state = "json"
    /\ loader = "load_iflow_quibbler_config" => ~f.extra

\* The config made from file f: the model of the file, else the default.
ConfigOf(loader, source, f) ==
    [source |-> source,
     model  |-> IF f.model # "" THEN f.model ELSE DefaultModel(loader)]

LoadConfigGlobalFirst(loader, project, global) ==
    IF Loads(loader, global) THEN ConfigOf(loader, "global", global)
    ELSE IF Loads(loader, project) THEN ConfigOf(loader, "project", project)
    ELSE [source |-> "default", model |-> DefaultModel(loader)]

\* load_config / load_iflow_quibbler_config
LoadConfig(loader, project, global) ==
    IF Loads(loader, project) THEN ConfigOf(loader, "project", project)
    ELSE IF Loads(loader, global) THEN ConfigOf(loader, "global", global)
    ELSE [source |-> "default", model |-> DefaultModel(loader)]

ConfigFrame ==
    UNCHANGED <<agentVars, regVars, ctxVars, bedVars, notifyVars, mapVars, streamVars,
                criticVars>>

\* A loader is called.
Load ==
    /\ \E l \in Loaders :
         loaded' = [loaded EXCEPT ![l] = LoadConfig(l, projectConfig, globalConfig)]
    /\ UNCHANGED <<projectConfig, globalConfig>>
    /\ ConfigFrame

InitConfig ==
    /\ AgentNew("QuibblerMCP")
    /\ RegistryEmpty
    /\ autoSummary = TRUE
    /\ ContextNew
    /\ BedrockIdle
    /\ NotifyIdle
    /\ MappingIdle
    /\ StreamIdle
    /\ CriticIdle
    /\ projectConfig \in ConfigFiles("model-p")
    /\ globalConfig \in ConfigFiles("model-g")
    /\ loaded = [l \in Loaders |-> NotLoaded]

NextConfig == Load

SpecConfig == InitConfig /\ [][NextConfig]_vars

\* ------------------------------------------------- Bedrock model names
\* The prefixes _map_model_to_bedrock_id tests with startswith.
ProviderPrefixes == {"anthropic.", "arn:", "us.", "eu.", "global."}

\* model_map: the friendly names (none starts with a provider prefix) and
\* their Bedrock ids.
ModelMap ==
    [n \in {"claude-haiku-4-5", "claude-haiku-4-5-20251001", "claude-sonnet-4-5",
            "claude-sonnet-4-5-20250514", "claude-opus-4", "claude-opus-4-1-20250805",
            "claude-sonnet-3-5", "claude-3-5-sonnet-20241022",
            "claude-3-5-haiku-20241022"} |->
       IF n \in {"claude-haiku-4-5", "claude-haiku-4-5-20251001"}
       THEN ModelName("global.", "anthropic.claude-haiku-4-5-20251001-v1:0")
       ELSE IF n \in {"claude-sonnet-4-5", "claude-sonnet-4-5-20250514"}
       THEN ModelName("global.", "anthropic.claude-sonnet-4-5-20250514-v1:0")
       ELSE IF n \in {"claude-opus-4", "claude-opus-4-1-20250805"}
       THEN ModelName("us.", "anthropic.claude-opus-4-1-20250805-v1:0")
       ELSE IF n \in {"claude-sonnet-3-5", "claude-3-5-sonnet-20241022"}
       THEN ModelName("us.", "anthropic.claude-3-5-sonnet-20241022-v2:0")
       ELSE ModelName("us.", "anthropic.claude-3-5-haiku-20241022-v1:0")]

\* Model names a caller may pass: the friendly names, names the table
\* does not know, the empty string, each of them behind a provider prefix
\* or a prefix the code does not test, and the Bedrock ids of the table.
ModelNames ==
    {ModelName(p, r) :
        p \in ProviderPrefixes \cup {"", "apac."},
        r \in DOMAIN ModelMap \cup {"claude-opus-5", "gpt-4o", ""}}
    \cup {ModelMap[n] : n \in DOMAIN ModelMap}

\* model_map.get(model, model)
ModelMapGet(model) ==
    IF model.prefix = "" /\ model.rest \in DOMAIN ModelMap
    THEN ModelMap[model.rest] ELSE model

MapModelToBedrockIdDefaultHaiku(model) ==
    IF model.prefix \in ProviderPrefixes THEN model
    ELSE IF model.prefix = "" /\ model.rest \in DOMAIN ModelMap
    THEN ModelMap[model.rest] ELSE ModelMap["claude-haiku-4-5"]

\* _map_model_to_bedrock_id
MapModelToBedrockId(model) ==
    IF model.prefix \in ProviderPrefixes THEN model ELSE ModelMapGet(model)

MappingFrame ==
    UNCHANGED <<agentVars, regVars, ctxVars, bedVars, notifyVars, cfgVars, streamVars,
                criticVars>>

\* BedrockClient.__init__: self.bedrock_model_id = ...
SetBedrockModelId ==
    /\ modelId = NoModel
    /\ modelId' = MapModelToBedrockId(modelName)
    /\ UNCHANGED modelName
    /\ MappingFrame

InitMapping ==
    /\ AgentNew("QuibblerMCP")
    /\ RegistryEmpty
    /\ autoSummary = TRUE
    /\ ContextNew
    /\ BedrockIdle
    /\ NotifyIdle
    /\ ConfigIdle
    /\ StreamIdle
    /\ CriticIdle
    /\ modelName \in ModelNames
    /\ modelId = NoModel

NextMapping == SetBedrockModelId

SpecMapping == InitMapping /\ [][NextMapping]_vars

\* ---------------------------------------------------- streamed replies
\* A parsed chunk: whether it has the key "choices", and for each choice
\* the content of its delta ("": the delta has no key "content").
Chunk(hasChoices, deltas) == [choices |-> hasChoices, deltas |-> deltas]

NoChunk == Chunk(FALSE, << >>)

\* The lines a response may hold: "data: " + JSON of a chunk (with one or
\* two choices, with a delta without content, without choices),
\* "data: " + text that is no JSON, "data: [DONE]", and a line that does
\* not start with "data: " (empty, a comment, an event name).
StreamLines ==
    {[data |-> TRUE, text |-> "json", chunk |-> c] :
        c \in {Chunk(TRUE, <<"a">>), Chunk(TRUE, <<"b">>), Chunk(TRUE, <<"a", "b">>),
               Chunk(TRUE, <<"">>), NoChunk}}
    \cup {[data |-> TRUE, text |-> "malformed", chunk |-> NoChunk],
          [data |-> TRUE, text |-> "[DONE]", chunk |-> NoChunk],
          [data |-> FALSE, text |-> "", chunk |-> NoChunk]}

OnJSONDecodeErrorRaise == "raise"

\* chat_completion: what "except json.JSONDecodeError" does after the
\* warning.
OnJSONDecodeError == "continue"

\* The caller's loop body for one chunk: the contents of the deltas that
\* have one, in the order of the choices.
DeltaContents(chunk) ==
    IF chunk.choices THEN SelectSeq(chunk.deltas, LAMBDA c : c # "") ELSE << >>

StreamFrame ==
    UNCHANGED <<agentVars, regVars, ctxVars, bedVars, notifyVars, cfgVars, mapVars,
                criticVars>>

\* aiter_lines() delivers the next line and the loop body runs: a line
\* without "data: " is passed over, [DONE] leaves the loop, a chunk is
\* parsed and yielded to the caller, which appends its contents.
ReadLine ==
    /\ spc = "stream"
    /\ pos < Len(lines)
    /\ pos' = pos + 1
    /\ LET line == lines[pos + 1] IN
       IF ~line.data
       THEN UNCHANGED <<spc, chunks, responseText, warnings>>
       ELSE IF line.text = "[DONE]"
       THEN /\ spc' = "done"
            /\ UNCHANGED <<chunks, responseText, warnings>>
       ELSE IF line.text = "malformed"
       THEN /\ warnings' = warnings + 1
            /\ spc' = IF OnJSONDecodeError = "continue" THEN "stream" ELSE "raised"
            /\ UNCHANGED <<chunks, responseText>>
       ELSE /\ chunks' = Append(chunks, line.chunk)
            /\ responseText' = responseText \o DeltaContents(line.chunk)
            /\ UNCHANGED <<spc, warnings>>
    /\ UNCHANGED lines
    /\ StreamFrame

\* The response has no more lines: the generator and the caller's loop
\* end.
StreamEnds ==
    /\ spc = "stream"
    /\ pos = Len(lines)
    /\ spc' = "done"
    /\ UNCHANGED <<lines, pos, chunks, responseText, warnings>>
    /\ StreamFrame

\* The connection fails while the next line is awaited: the error is
\* logged and raised to the caller.
StreamRaises ==
    /\ spc = "stream"
    /\ spc' = "raised"
    /\ UNCHANGED <<lines, pos, chunks, responseText, warnings>>
    /\ StreamFrame

\* The response has arrived with status 200 and the first line is awaited.
InitStream ==
    /\ AgentNew("IFlowQuibblerMCP")
    /\ RegistryEmpty
    /\ autoSummary = TRUE
    /\ ContextNew
    /\ BedrockIdle
    /\ NotifyIdle
    /\ ConfigIdle
    /\ MappingIdle
    /\ CriticIdle
    /\ lines \in SeqUpTo(StreamLines, MaxLines)
    /\ pos = 0
    /\ spc = "stream"
    /\ chunks = << >>
    /\ responseText = << >>
    /\ warnings = 0

NextStream ==
    \/ ReadLine
    \/ StreamEnds
    \/ StreamRaises

SpecStream == InitStream /\ [][NextStream]_vars

\* --------------------------------------------------------- Critic agent
CriticFrame ==
    UNCHANGED <<agentVars, regVars, ctxVars, bedVars, notifyVars, cfgVars, mapVars,
                streamVars>>

\* Critic.start(): a no-op when self.client is set; else the client is
\* constructed and assigned, entered, and the task is created.  When
\* __aenter__ raises, the client stays assigned and no task is created.
CriticStart ==
    /\ criticLog.owner = "idle"
    /\ IF critic.client # "none"
       THEN /\ criticLog' = [criticLog EXCEPT !.lastOp = "start_noop"]
            /\ UNCHANGED <<critic, criticTask>>
       ELSE /\ criticLog.constructed < MaxTasks
            /\ \E ok \in BOOLEAN :
                 IF ok
                 THEN /\ critic' = [critic EXCEPT !.client = "open", !.task = TRUE]
                      /\ criticTask' = [NoCriticTask EXCEPT !.st = "run", !.pc = "new"]
                      /\ criticLog' = [criticLog EXCEPT !.constructed = @ + 1,
                                                        !.entered = @ + 1,
                                                        !.lastOp = "start_new"]
                 ELSE /\ critic' = [critic EXCEPT !.client = "unentered"]
                      /\ criticLog' = [criticLog EXCEPT !.constructed = @ + 1,
                                                        !.lastOp = "start_raised"]
                      /\ UNCHANGED criticTask
    /\ CriticFrame

\* The second half of stop(): "if self.client: await __aexit__; client = None"
CriticRelease(c, log) ==
    IF c.client # "none"
    THEN <<[c EXCEPT !.client = "none"],
           [log EXCEPT !.exited = @ + 1, !.lastOp = "stop_ok", !.owner = "idle"]>>
    ELSE <<c, [log EXCEPT !.lastOp = "stop_ok", !.owner = "idle"]>>

\* "await self.task" in stop() once the task has finished: an Exception
\* of the task is swallowed by "except Exception: pass"; the
\* CancelledError of a cancelled task is a BaseException and leaves
\* stop() at this line.
CriticStopFinish ==
    IF criticTask.st = "cancelled"
    THEN /\ criticLog' = [criticLog EXCEPT !.lastOp = "stop_raised", !.owner = "idle"]
         /\ UNCHANGED critic
    ELSE LET r == CriticRelease([critic EXCEPT !.task = FALSE], criticLog)
         IN  critic' = r[1] /\ criticLog' = r[2]

\* Critic.stop() up to its first suspension.
CriticStop ==
    /\ criticLog.owner = "idle"
    /\ IF critic.task
       THEN IF criticTask.st = "run"
            THEN \* self.task.cancel(); await self.task
                 /\ criticTask' = [criticTask EXCEPT !.cancel = TRUE]
                 /\ criticLog' = [criticLog EXCEPT !.owner = "stopping",
                                                   !.lastOp = "stopping"]
                 /\ UNCHANGED critic
            ELSE /\ CriticStopFinish
                 /\ UNCHANGED criticTask
       ELSE /\ LET r == CriticRelease(critic, criticLog)
               IN  critic' = r[1] /\ criticLog' = r[2]
            /\ UNCHANGED criticTask
    /\ CriticFrame

\* stop() resumes when the cancelled task has finished.
CriticStopResume ==
    /\ criticLog.owner = "stopping"
    /\ criticTask.st # "run"
    /\ CriticStopFinish
    /\ UNCHANGED criticTask
    /\ CriticFrame

\* Critic.enqueue(evt): put_nowait on a queue of maxsize 1000, which the
\* events of a run here never fill.
CriticEnqueue ==
    /\ criticLog.enqueued < MaxItems
    /\ critic' = [critic EXCEPT !.queue = Append(@, criticLog.enqueued + 1)]
    /\ criticLog' = [criticLog EXCEPT !.enqueued = @ + 1]
    /\ UNCHANGED criticTask
    /\ CriticFrame

\* Critic._run, one step: the startup query, its replies, queue.get(),
\* and the query and replies of an event.  No statement of _run is in a
\* try block, so an exception of the client ends the task.
CriticRun ==
    /\ criticTask.st = "run" /\ ~criticTask.cancel
    /\ \/ /\ criticTask.pc = "new"
          /\ criticTask' = [criticTask EXCEPT !.pc = "startup"]
          /\ criticLog' = [criticLog EXCEPT !.calls = Append(@, 0)]
          /\ UNCHANGED critic
       \/ /\ criticTask.pc = "startup"
          /\ \E ok \in BOOLEAN :
               criticTask' = IF ok THEN [criticTask EXCEPT !.pc = "get"]
                             ELSE [criticTask EXCEPT !.st = "exc", !.pc = "end"]
          /\ UNCHANGED <<critic, criticLog>>
       \/ /\ criticTask.pc = "get"
          /\ critic.queue # << >>
          /\ critic' = [critic EXCEPT !.queue = Tail(@)]
          /\ criticTask' = [criticTask EXCEPT !.pc = "call", !.item = Head(critic.queue)]
          /\ criticLog' = [criticLog EXCEPT !.calls = Append(@, Head(critic.queue))]
       \/ /\ criticTask.pc = "call"
          /\ \E ok \in BOOLEAN :
               IF ok
               THEN /\ criticTask' = [criticTask EXCEPT !.pc = "get", !.item = 0]
                    /\ criticLog' = [criticLog EXCEPT !.done = @ \cup {criticTask.item}]
               ELSE /\ criticTask' = [criticTask EXCEPT !.st = "exc", !.pc = "end"]
                    /\ criticLog' = [criticLog EXCEPT
                                        !.raised = @ \cup {criticTask.item}]
          /\ UNCHANGED critic
    /\ CriticFrame

\* The CancelledError of stop() reaches the task at its await.
CriticCancelled ==
    /\ criticTask.st = "run" /\ criticTask.cancel
    /\ criticTask' = [criticTask EXCEPT !.st = "cancelled", !.pc = "end"]
    /\ UNCHANGED <<critic, criticLog>>
    /\ CriticFrame

InitCritic ==
    /\ AgentNew("QuibblerHook")
    /\ RegistryEmpty
    /\ autoSummary = TRUE
    /\ ContextNew
    /\ BedrockIdle
    /\ AuxIdle

NextCritic ==
    \/ CriticStart
    \/ CriticStop
    \/ CriticStopResume
    \/ CriticEnqueue
    \/ CriticRun
    \/ CriticCancelled

SpecCritic == InitCritic /\ [][NextCritic]_vars

\* ------------------------------------------------------------ claims
\* An item whose processing is over: its backend call returned or raised,
\* was cut off by the cancellation of stop(), or the item was skipped.
Over(a) == proc[a] \in {"completed", "cut", "skipped"}

Startups == Cardinality({n \in DOMAIN calls : calls[n] = 0})

\* C7: start() is idempotent.  A start() that finds the agent started
\* changes nothing: no task, no client, no startup message; and the agent
\* never has two unfinished consumer tasks.
StartIdempotent ==
    /\ [](Cardinality(LiveTasks) <= 1 /\ Startups <= ntasks /\ nclients <= ntasks)
    /\ [][(lastOp' = "start_noop" /\ lastOp # "start_noop")
            => UNCHANGED <<task, tasks, ntasks, client, nclients, calls, queue>>]_vars

\* C7 witness: a start() call found the consumer running and returned.
StartIdempotentWitness ==
    lastOp = "start_noop" /\ task # 0 /\ Live(task) /\ tasks[task].pc = "get"

\* C9 as stated: startup before work with the reply consumed.  A task
\* that has dequeued a work item and is in its backend call has sent the
\* startup message and consumed its reply.
StartupConsumedBeforeWork ==
    \A t \in TaskIds :
        (Live(t) /\ tasks[t].pc = "call") => tasks[t].startup = "consumed"

\* C9 as amended: a task that is in the loop has sent the startup message
\* and the startup exchange is over, its reply consumed or, in the iFlow
\* agents only, its failure logged; no backend call of a work item
\* overlaps it, and the agent's first backend exchange is a startup
\* message.
StartupEndedBeforeWork ==
    /\ \A t \in TaskIds :
         (Live(t) /\ tasks[t].pc \in {"get", "call"}) =>
            \/ tasks[t].startup = "consumed"
            \/ IsIFlow(kind) /\ tasks[t].startup = "failed"
    /\ Cardinality({t \in TaskIds : InCall(t)}) <= 1
    /\ calls # << >> => calls[1] = 0

\* C9 witness: an item that was queued before the consumer's first step
\* is in its backend call after the startup reply was consumed.
StartupWitness ==
    \E t \in TaskIds :
        /\ Live(t) /\ tasks[t].pc = "call" /\ tasks[t].startup = "consumed"
        /\ Len(calls) = 2

\* C10: enqueue() on the hook agents always succeeds at once.  No put() is
\* ever suspended, and every event submitted and not yet dequeued is in
\* the queue, once, in submission order.
EnqueueAlwaysSucceeds ==
    ~IsMCP(kind) =>
        /\ blocked = {}
        /\ \A i \in 1..nitems : proc[i] # "blocked"
        /\ \A i \in 1..nitems : proc[i] = "queued" <=> i \in Range(queue)
        /\ \A m, n \in DOMAIN queue : m < n => queue[m] < queue[n]

\* C10 witness: every event the bound allows is pending in the queue of a
\* hook agent whose consumer has ended.
EnqueueWitness ==
    ~IsMCP(kind) /\ Len(queue) = MaxItems /\ LiveTasks = {}

\* C5 as stated: an exception while a work item is processed does not end
\* the consumer loop.  A task that leaves an item's backend call without
\* having been cancelled by stop() is still running.
FailureIsolation ==
    [][\A t \in TaskIds :
          (Live(t) /\ tasks[t].pc = "call" /\ ~tasks[t].cancel
             /\ tasks'[t].pc # "call") => tasks'[t].st = "run"]_vars

\* C6 as stated: when stop() completes, no reply future that was pending
\* when stop() was called (its request in flight or queued) is pending.
NoPendingAfterStop ==
    [][(lastOp' = "stop_ok" /\ lastOp # "stop_ok")
          => \A i \in atStop' : fut'[i] # "pending"]_vars

\* C8 as stated: stop() never raises, and when it has returned the agent
\* has no consumer task and its backend session is released.
StopCompletes ==
    /\ lastOp # "stop_raised"
    /\ lastOp \in {"stop_ok", "stop_noop"} =>
          /\ task = 0
          /\ client # "open"
          /\ \A t \in TaskIds : ~tasks[t].conn

\* A stop() was called while a consumer task was running.
StopSeen == \E t \in TaskIds : tasks[t].cancel

\* C3 as stated: a review() made while the consumer loop is running is
\* eventually resolved, unless the caller gives up or the agent is
\* stopped.
ReplyResolution ==
    \A i \in ItemIds :
        (i \in madeLive /\ fut[i] = "pending") ~> (fut[i] # "pending" \/ StopSeen)

\* C4 as stated: a synchronous review call never hangs; its reply future
\* is eventually done, whatever the state of the consumer.
SyncCallersReturn ==
    \A i \in ItemIds : (fut[i] = "pending") ~> (fut[i] # "pending")

\* The agents constructed for session id k.
AgentsOf(k) == {a \in 1..nagents : agents[a].key = k}

\* The requests for session id k whose get_or_create_quibbler returned.
ReturnedFor(k) == {c \in CallIds : bg[c].pc = "done" /\ bg[c].key = k}

\* C2 as stated: at most one agent per key.  For every key, whatever the
\* calls and their interleaving, one agent object is constructed, start()
\* is invoked once, one backend session is created, and all calls return
\* the same agent.
OneAgentPerKey ==
    \A k \in Keys :
        /\ Cardinality(AgentsOf(k)) <= 1
        /\ Cardinality({a \in AgentsOf(k) : agents[a].startCalls > 0}) <= 1
        /\ Cardinality({a \in AgentsOf(k) : agents[a].client}) <= 1
        /\ \A c, d \in ReturnedFor(k) : bg[c].ret = bg[d].ret

\* C2 as amended: for every key at most one agent is constructed whose
\* start() succeeds; start() is invoked once on each agent; at most one
\* backend session and one consumer task exist for the key; the registry
\* entry is that agent and every call that returns, returns it.  Every
\* other agent of the key is one whose start() raised; between start()
\* and the insertion no other task runs.
OneStartedAgentPerKey ==
    \A k \in Keys :
        /\ Cardinality({a \in AgentsOf(k) : agents[a].task}) <= 1
        /\ Cardinality({a \in AgentsOf(k) : agents[a].client}) <= 1
        /\ \A a \in AgentsOf(k) : agents[a].startCalls <= 1
        /\ \A c \in ReturnedFor(k) :
             /\ bg[c].ret # 0
             /\ bg[c].ret = quibblers[k]
             /\ agents[bg[c].ret].task
        /\ \A a \in AgentsOf(k) :
             (a # quibblers[k] /\ agents[a].task) =>
                 /\ running # 0
                 /\ bg[running].quibbler = a
                 /\ bg[running].pc = "insert"

\* C2 witness: three racing requests for one session id have all returned
\* the one agent.
OneAgentWitness ==
    \E k \in Keys :
        /\ Cardinality(ReturnedFor(k)) = 3
        /\ \A c \in ReturnedFor(k) : bg[c].ret = quibblers[k]
        /\ Len(agents[quibblers[k]].queue) = 3

\* C11 as stated: shutdown empties the registry.  At the step that ends the
\* shutdown loop of lifespan / cleanup(), the registry has no entry and every agent
\* that was started has been stopped: no consumer task, no backend client.
ShutdownEmptiesRegistry ==
    [][(shut.pc = "loop" /\ shut'.pc \in {"done", "raised"}) =>
          /\ \A k \in Keys : quibblers'[k] = 0
          /\ \A a \in 1..nagents : ~agents'[a].task /\ ~agents'[a].client]_vars

\* C12: fail-open compaction.  When the summarizer call of create_summary
\* raises, the stored turns and the stored summary are what they were, the
\* exception does not reach the caller, and inside _query_iflow the backend
\* call for the current item is made, with the unchanged context.
FailOpenCompaction ==
    [][(qpc = "summary" /\ lastCtx' = "summary_failed") =>
          /\ context'.messages = context.messages
          /\ context'.summary = context.summary
          /\ discarded' = discarded
          /\ IF direct
             THEN qpc' = "idle" /\ nchat' = nchat
             ELSE /\ qpc' = "chat"
                  /\ nchat' = nchat + 1
                  /\ Len(sent') >= Len(context.messages) + 1
                  /\ \A i \in DOMAIN context.messages :
                        sent'[Len(sent') - Len(context.messages) + i].content
                            = context.messages[i].content]_vars

\* C12 witness: the summarizer failed inside _query_iflow with 16 turns and
\* a stored summary, and the backend call of the item is in progress.
FailOpenWitness ==
    /\ lastCtx = "summary_failed" /\ qpc = "chat"
    /\ Len(context.messages) > MAX_MESSAGES_BEFORE_SUMMARY
    /\ context.summary.set

\* C13: compaction result.  A successful create_summary leaves exactly the
\* last 5 turns that were stored, in their order, and stores the
\* summarizer's output; afterwards the turn count is at most 5 plus the
\* turns added since.
CompactionResult ==
    /\ [][(qpc = "summary" /\ lastCtx' = "summary_ok") =>
             /\ Len(context'.messages) = 5
             /\ \A i \in 1..5 :
                   context'.messages[i]
                       = context.messages[Len(context.messages) - 5 + i]
             /\ context'.summary.set
             /\ context'.summary.text = answered']_vars
    /\ [](compactedAt > 0 => Len(context.messages) <= 5 + (nturns - compactedAt))

\* C13 witness: a second compaction has stored its summary.
CompactionWitness ==
    /\ lastCtx = "summary_ok" /\ nsummary >= 2
    /\ Len(context.messages) = 5
    /\ Cardinality(discarded) > 11

\* C14: compaction trigger.  should_summarize is true exactly when more
\* than 15 turns are stored, and a create_summary call made when it is
\* false calls no summarizer and changes neither turns nor summary.
CompactionTrigger ==
    /\ [](ShouldSummarize(context) <=> Len(context.messages) >= 16)
    /\ [][(lastCtx' = "summary_noop" /\ lastCtx # "summary_noop") =>
             /\ Len(context.messages) <= 15
             /\ context' = context
             /\ nsummary' = nsummary
             /\ asked' = asked
             /\ qpc' = "idle"]_vars
    /\ [][(qpc = "idle" /\ qpc' = "summary") => Len(context'.messages) >= 16]_vars

\* C14 witness: create_summary was called with exactly 15 turns stored and
\* did nothing.
CompactionTriggerWitness ==
    lastCtx = "summary_noop" /\ Len(context.messages) = 15 /\ qpc = "idle"

\* Text t occurs verbatim in the summarizer input p (the empty text occurs
\* in every text).
Includes(p, t) == t = "" \/ p.prev = t

\* C15: rolling summary keeps history.  While a summarizer call is in
\* progress its input holds the stored summary verbatim and the content of
\* every turn that will be discarded; no turn was ever discarded without
\* having been in the input of a summarizer call whose output was stored.
RollingSummary ==
    /\ qpc = "summary" =>
          /\ context.summary.set => Includes(asked, context.summary.text)
          /\ \A i \in DOMAIN OldMessages(context.messages) :
                \E j \in DOMAIN asked.old :
                    asked.old[j].content = OldMessages(context.messages)[i].content
    /\ discarded \subseteq covered
    /\ \A n \in 1..nturns : n \in Ids(context.messages) \/ n \in discarded

\* C15 witness: a summarizer call is in progress while a non-empty summary
\* of an earlier compaction is stored.
RollingSummaryWitness ==
    /\ qpc = "summary" /\ nsummary >= 2
    /\ context.summary.set /\ context.summary.text # ""
    /\ discarded # {}

\* What get_context_messages returned for the backend call in progress.
Rendered == Tail(sent)

ScriptToolUses ==
    {x \in (DOMAIN script) \X (1..MaxBlocks) :
        /\ x[2] \in DOMAIN script[x[1]]
        /\ script[x[1]][x[2]].type = "tool_use"}

\* The last reply of the script.
FinalTurn == script[Len(script)]

\* C17: tool loop.  When receive_response has ended for a conversation of
\* k tool-use replies and a text-only reply, it has made k+1 provider
\* calls, has executed one tool per tool_use block, in order, and has
\* yielded the text of the final reply and nothing else.
ToolLoop ==
    /\ ninvoke <= Len(script)
    /\ Len(executed) <= Cardinality(ScriptToolUses)
    /\ \A e \in DOMAIN executed :
          <<executed[e].id \div 10, executed[e].id % 10>> \in ScriptToolUses
    /\ \A e, f \in DOMAIN executed : e < f => executed[e].id < executed[f].id
    /\ bpc # "done" => yielded = << >>
    /\ bpc = "done" =>
          /\ ninvoke = Len(script)
          /\ Len(executed) = Cardinality(ScriptToolUses)
          /\ yielded = IF FinalTurn = << >> THEN << >>
                       ELSE << [i \in DOMAIN FinalTurn |-> FinalTurn[i].text] >>

\* C17 witness: one tool-use reply with one tool_use block, then text: two
\* provider calls, one tool execution, the text yielded.
ToolLoopWitness ==
    /\ bpc = "done" /\ Len(script) = 2 /\ ninvoke = 2
    /\ Len(executed) = 1
    /\ yielded = << <<"a">> >>

\* The tool results that have reached the conversation.
ResultsInHistory ==
    UNION {{history[h].content[i] : i \in DOMAIN history[h].content} :
              h \in {x \in DOMAIN history : history[x].kind = "tool_results"}}

\* C18: tool errors never kill the session.  Every tool execution, failing
\* or for an unknown tool, yields a result string; no step of the tool
\* executions ends receive_response; once the executions of a reply are
\* over, each result is in the conversation under its tool_use id and the
\* next provider call is made.
ToolErrorsContained ==
    /\ [](\A e \in DOMAIN executed :
            /\ executed[e].result # "raise"
            /\ (executed[e].name = "read_file" /\ ~executed[e].ok)
                  => executed[e].result = "Error reading file"
            /\ (executed[e].name = "write_file" /\ ~executed[e].ok)
                  => executed[e].result = "Error writing file"
            /\ executed[e].name \notin {"read_file", "write_file"}
                  => executed[e].result = "Unknown tool"
            /\ (bpc # "tools" \/ executed[e].id \div 10 < ninvoke)
                  => ToolResult(executed[e].id, executed[e].result) \in ResultsInHistory)
    /\ [][bpc = "tools" => bpc' \in {"tools", "invoke"}]_vars
    /\ [][(bpc = "tools" /\ bpc' = "invoke") =>
             /\ Len(history'[Len(history')].content)
                   = Len(ToolUseBlocks(history[Len(history)].content))
             /\ ninvoke' < Len(script)]_vars

\* C18 witness: a failed read and an unknown tool were executed in one
\* reply and the conversation went on to its end.
ToolErrorsWitness ==
    /\ bpc = "done"
    /\ \E e, f \in DOMAIN executed :
          /\ executed[e].name = "read_file" /\ ~executed[e].ok
          /\ executed[f].name = "delete_file"
          /\ executed[e].id \div 10 = executed[f].id \div 10

\* No source holds a usable key.
NoCredentials(src) ==
    /\ src.env \in {"absent", "empty"}
    /\ src.user \in {"absent", "invalid", "nokey"}
    /\ src.project \in {"absent", "invalid", "nokey"}

\* C19: missing credentials stop the agent before it runs.  A start() that
\* finds no credentials raises: the agent has no client and no task, is in
\* no registry entry and is returned to no caller; start() raises in no
\* other case; and a resolve that finds no entry for its key constructs an
\* agent again.
MissingCredentials ==
    /\ [](\A c \in CallIds :
            /\ (bg[c].auth # NoSources /\ NoCredentials(bg[c].auth)) =>
                  /\ bg[c].pc = "failed"
                  /\ bg[c].ret = 0
                  /\ ~agents[bg[c].quibbler].task
                  /\ ~agents[bg[c].quibbler].client
                  /\ \A k \in Keys : quibblers[k] # bg[c].quibbler
                  /\ \A d \in CallIds \ {c} : bg[d].quibbler # bg[c].quibbler
            /\ bg[c].pc = "failed" => NoCredentials(bg[c].auth))
    /\ [][\A c \in CallIds :
            (bg[c].pc = "lookup" /\ bg'[c].pc # "lookup" /\ quibblers[bg[c].key] = 0)
                => (bg'[c].pc = "construct" /\ bg'[c].quibbler = 0)]_vars

\* C19 witness: a resolve failed for missing credentials, and a later
\* resolve of the same key constructed a second agent and returned it.
MissingCredentialsWitness ==
    \E c, d \in CallIds :
        /\ c < d /\ bg[c].key = bg[d].key
        /\ bg[c].pc = "failed" /\ NoCredentials(bg[c].auth)
        /\ bg[d].pc = "done" /\ bg[d].ret # 0 /\ bg[d].ret # bg[c].quibbler
        /\ quibblers[bg[d].key] = bg[d].ret

\* C20: transport errors are not retried.  No item has more than one
\* backend call; when the call of a review fails while its caller waits,
\* the future is given the exception in the same step and no other call
\* is made; a future carries an exception only for a failed call.
NoRetry ==
    /\ [](\A i \in ItemIds : Cardinality({n \in DOMAIN calls : calls[n] = i}) <= 1)
    /\ [](\A i \in ItemIds :
            /\ fut[i] = "exception" => outcome[i] = "failed"
            /\ fut[i] = "result" => outcome[i] = "ok"
            /\ outcome[i] # "none" => proc[i] = "completed")
    /\ [][\A i \in ItemIds :
            (outcome[i] = "none" /\ outcome'[i] = "failed") =>
                /\ calls' = calls
                /\ (IsMCP(kind) /\ fut[i] = "pending") =>
                      (fut'[i] = "exception" /\ nset'[i] = 1)]_vars

\* C20 witness: the call of review 1 failed, its future carries the
\* exception, it had one call, and review 2 is in its backend call.
NoRetryWitness ==
    /\ IsIFlow(kind) /\ IsMCP(kind)
    /\ outcome[1] = "failed" /\ fut[1] = "exception"
    /\ \E t \in TaskIds : Live(t) /\ tasks[t].pc = "call" /\ tasks[t].item = 2

\* C21: hook ingestion does not wait.  The step of hook() for a valid body
\* creates the background task and nothing else: no agent is looked up,
\* constructed, started or given the event; the response {status: ok,
\* session_id} exists from that step on and is never changed, whether the
\* background task fails or the event stays unprocessed in the queue.
HookDoesNotWait ==
    /\ [](\A c \in 1..ncalls :
            bg[c].pc # "rejected" => bg[c].resp = HookResponse(bg[c].key))
    /\ [][(ncalls' = ncalls + 1 /\ bg'[ncalls'].pc # "rejected") =>
             /\ bg'[ncalls'].pc = "lookup"
             /\ bg'[ncalls'].quibbler = 0
             /\ ready' = Append(ready, ncalls')
             /\ UNCHANGED <<quibblers, agents, nagents, running>>]_vars

\* C21 witness: two requests have their response; the background task of
\* the first failed (no credentials), the event of the second is in the
\* queue of an agent whose backend has answered nothing.
HookDoesNotWaitWitness ==
    \E c, d \in CallIds :
        /\ bg[c].pc = "failed" /\ bg[c].resp = HookResponse(bg[c].key)
        /\ bg[d].pc = "done" /\ bg[d].resp = HookResponse(bg[d].key)
        /\ d \in Range(agents[bg[d].ret].queue)

\* The prints of feedback text n.
Displays(n) == {i \in DOMAIN emitted : emitted[i].feedback = n}

\* C22 as stated: file-drop notify.  A run that finds the file absent
\* returns 0, prints nothing and changes nothing; a run that finds it
\* present prints its content in the form of its platform, deletes it and
\* returns 2; no run ends in another way; a feedback text is printed at
\* most once.
FileDropNotify ==
    /\ [][ndisp' = ndisp + 1 => UNCHANGED <<file, emitted>>]_vars
    /\ [](\A d \in 1..ndisp :
            /\ disp[d].pc = "end" => disp[d].ret \in {"0", "2"}
            /\ disp[d].ret = "0" => disp[d].feedback = 0
            /\ disp[d].ret = "2" =>
                  \E i \in DOMAIN emitted :
                      emitted[i] = Output(d, disp[d].platform, disp[d].feedback))
    /\ [](\A i \in DOMAIN emitted :
            /\ emitted[i].feedback \in 1..nfeedback
            /\ (disp[emitted[i].run].platform = "cursor") =>
                  /\ emitted[i].format = "json"
                  /\ emitted[i].fields = {"followup_message"}
            /\ (disp[emitted[i].run].platform # "cursor") =>
                  /\ emitted[i].format = "text"
                  /\ emitted[i].channel = "stderr")
    /\ [][\A d \in DisplayIds :
            (disp'[d].ret = "2" /\ disp[d].ret # "2") => file'[disp[d].key] = 0]_vars
    /\ [](\A n \in 1..nfeedback : Cardinality(Displays(n)) <= 1)

\* File f exists and parses.
Parses(f) == f.state = "json"

UsableFile(l, f) == Parses(f) /\ (l = "load_iflow_quibbler_config" => ~f.extra)

ModelNameMapping ==
    modelId # NoModel =>
        /\ (modelName.prefix = "" /\ modelName.rest \in DOMAIN ModelMap)
              => modelId = ModelMap[modelName.rest]
        /\ ~(modelName.prefix = "" /\ modelName.rest \in DOMAIN ModelMap)
              => modelId = modelName
        /\ modelName.prefix \in {"anthropic.", "arn:", "us.", "eu.", "global."}
              => modelId = modelName
        /\ modelName = ModelName("", "claude-opus-4")
              => modelId = ModelName("us.", "anthropic.claude-opus-4-1-20250805-v1:0")

\* C24 witness: a name the table does not know, without provider prefix,
\* was mapped to itself.
ModelNameMappingWitness ==
    /\ modelName = ModelName("", "gpt-4o")
    /\ modelId = modelName

\* The index of the first [DONE] line of ls, Len(ls) + 1 when it has none.
FirstDone(ls) ==
    LET done == {i \in DOMAIN ls : ls[i].data /\ ls[i].text = "[DONE]"}
    IN  IF done = {} THEN Len(ls) + 1
        ELSE CHOOSE i \in done : \A j \in done : i <= j

\* The delta contents of the well-formed chunks among the first n lines of
\* ls, in order.
RECURSIVE ContentsUpTo(_, _)
ContentsUpTo(ls, n) ==
    IF n = 0 THEN << >>
    ELSE ContentsUpTo(ls, n - 1)
         \o (IF ls[n].data /\ ls[n].text = "json" /\ ls[n].chunk.choices
             THEN SelectSeq(ls[n].chunk.deltas, LAMBDA c : c # "")
             ELSE << >>)

StopStep ==
    \/ owner = "idle" /\ lastOp' \in {"stopping", "stop_ok", "stop_raised", "stop_noop"}
                      /\ (lastOp' # lastOp \/ atStop' # atStop)
    \/ owner = "stopping" /\ owner' = "idle"

DeadConsumer == task # 0 /\ ~Live(task) /\ ~tasks[task].cancel

\* C27 as stated: dead but registered.  A consumer that ends on its own
\* leaves self.task set; start() on the agent is then a no-op, with no new
\* task; and stop() followed by start() gives a running consumer: stop()
\* returns with task None, after which start() creates a task.
DeadButRegistered ==
    /\ [][\A t \in TaskIds :
            (Live(t) /\ ~tasks[t].cancel /\ tasks'[t].st # "run")
                => (task' = t /\ task = t)]_vars
    /\ [][(DeadConsumer /\ owner = "idle" /\ lastOp' \in {"start_noop", "start_new",
                                                           "start_raised"}
             /\ lastOp' # lastOp)
            => (lastOp' = "start_noop" /\ UNCHANGED <<task, tasks, ntasks>>)]_vars
    /\ [][(DeadConsumer /\ owner = "idle"
             /\ lastOp' \in {"stopping", "stop_ok", "stop_raised", "stop_noop"}
             /\ lastOp' # lastOp)
            => (lastOp' = "stop_ok" /\ task' = 0)]_vars
    /\ [][(ntasks' = ntasks + 1) => (task = 0 /\ tasks'[task'].st = "run")]_vars

\* C28 as stated: a caller that gives up does not break the session.  When
\* the backend call of a review whose reply future was cancelled comes to
\* its end, the consumer that made it is still running and waits for the
\* next item of the queue.
CallerGivesUp ==
    [][\A t \in TaskIds :
          (/\ Live(t) /\ tasks[t].pc = "call" /\ ~tasks[t].cancel
           /\ fut[tasks[t].item] = "cancelled"
           /\ tasks'[t].item # tasks[t].item)
          => (tasks'[t].st = "run" /\ tasks'[t].pc = "get")]_vars

\* The stored turns among the messages of the backend call in progress.
SentTurns == SelectSeq(sent, LAMBDA m : m.content.label = "")

\* C29: bounded context at send time.  With auto-summary enabled, the
\* messages of a backend call whose summarizer call, if one was made, has
\* succeeded are the system prompt, at most one summary turn and at most
\* 15 stored turns, the last of which is the user turn of the item being
\* processed; this after any number of items, failed ones included.
BoundedContext ==
    (qpc = "chat" /\ autoSummary /\ lastCtx # "summary_failed") =>
        /\ Len(SentTurns) <= 15
        /\ Len(SentTurns) = Len(context.messages)
        /\ sent[1] = SystemPromptMessage
        /\ Len(sent) \in {Len(SentTurns) + 1, Len(SentTurns) + 2}
        /\ Len(sent) = Len(SentTurns) + 2 =>
              sent[2].content.label = "CONVERSATION HISTORY SUMMARY:"
        /\ SentTurns # << >>
        /\ SentTurns[Len(SentTurns)].role = "user"
        /\ SentTurns[Len(SentTurns)].content.id = nturns

\* C29 witness: a backend call with 15 stored turns and a summary turn is
\* in progress, after a compaction and after a backend call that failed.
BoundedContextWitness ==
    /\ qpc = "chat" /\ autoSummary /\ lastCtx = "query_raised"
    /\ Len(SentTurns) = 15 /\ Len(sent) = 17
    /\ compactedAt > 0

\* C30: compaction never discards history without a summary.  Once
\* create_summary has removed turns from the context, the messages that
\* get_context_messages renders begin with a summary turn, whatever text
\* the summarizer returned.
NoDiscardWithoutSummary ==
    discarded # {} =>
        /\ GetContextMessages(context) # << >>
        /\ GetContextMessages(context)[1].content.label =
               "CONVERSATION HISTORY SUMMARY:"

\* The reply has a tool_use block.
HasToolUse(content) == \E i \in DOMAIN content : content[i].type = "tool_use"

\* The texts of the text blocks of a reply, in order.
TextBlockTexts(content) ==
    LET RECURSIVE texts(_)
        texts(c) == IF c = << >> THEN << >>
                    ELSE IF Head(c).type = "text"
                         THEN <<Head(c).text>> \o texts(Tail(c))
                         ELSE texts(Tail(c))
    IN  texts(content)

\* C31: only tool-free turns are yielded.  receive_response yields only in
\* the step that receives a reply without tool_use block, the first such
\* reply of the query; it yields one message, the texts of that reply, and
\* nothing when the reply has no text block.  A reply with a tool_use
\* block is never yielded, whatever text it carries.
OnlyToolFreeYielded ==
    /\ [][yielded' # yielded =>
            /\ Len(history') = Len(history) + 1
            /\ LET reply == history'[Len(history')] IN
               /\ reply.role = "assistant"
               /\ ~HasToolUse(reply.content)
               /\ TextBlockTexts(reply.content) # << >>
               /\ yielded' = Append(yielded, TextBlockTexts(reply.content))
            /\ yielded = << >>
            /\ \A h \in DOMAIN history :
                  history[h].role = "assistant" => HasToolUse(history[h].content)
            /\ bpc' = "done"]_vars
    /\ [][(Len(history') = Len(history) + 1
             /\ history'[Len(history')].role = "assistant"
             /\ \/ HasToolUse(history'[Len(history')].content)
                \/ TextBlockTexts(history'[Len(history')].content) = << >>)
            => yielded' = yielded]_vars
    /\ [](Len(yielded) <= 1)

\* C31 witness: a reply with a text block and a tool_use block was received
\* and not yielded, the tool was run, and the text-only reply that followed
\* was yielded.
OnlyToolFreeWitness ==
    /\ bpc = "done" /\ Len(history) = 4
    /\ history[2].content[1].type = "text" /\ history[2].content[1].text = "a"
    /\ history[2].content[2].type = "tool_use"
    /\ yielded = << <<"b">> >>

\* The roles of the conversation alternate, starting with user.
RolesAlternate ==
    /\ history[1].role = "user"
    /\ \A h \in 1..(Len(history) - 1) : history[h].role # history[h + 1].role

\* Every assistant turn with tool_use blocks is followed by a user turn of
\* tool_results, one per tool_use block, same ids, same order.
ToolUsesAnswered ==
    \A h \in DOMAIN history :
        (history[h].role = "assistant" /\ HasToolUse(history[h].content)) =>
            /\ h < Len(history)
            /\ history[h + 1].role = "user"
            /\ history[h + 1].kind = "tool_results"
            /\ LET uses == SelectSeq(history[h].content,
                                     LAMBDA b : b.type = "tool_use")
                   res  == history[h + 1].content
               IN  /\ Len(res) = Len(uses)
                   /\ \A i \in DOMAIN uses :
                         res[i].type = "tool_result" /\ res[i].id = uses[i].id

\* C32: the Bedrock history stays well-formed.  Whenever receive_response
\* is not between a reply and its tool results (after query(), and after
\* receive_response has ended or raised), conversation_history alternates
\* user and assistant roles starting with user, and every tool_use block
\* is answered in the next user turn by one tool_result of the same id.
HistoryWellFormed ==
    bpc \in {"invoke", "done", "raised"} => (RolesAlternate /\ ToolUsesAnswered)

\* C33: replies go to their own caller.  A reply future is given a result
\* or an exception only by the consumer step that ends the backend call of
\* its own request: a result when that call returned, an exception when it
\* raised; the step changes no other future.  So a resolved future always
\* carries the outcome of its own request's call.
RepliesToOwnCaller ==
    /\ [][\A i \in ItemIds :
            (fut'[i] # fut[i] /\ fut'[i] \in {"result", "exception"}) =>
                /\ \E t \in TaskIds : /\ tasks[t].pc = "call" /\ tasks[t].item = i
                                      /\ tasks'[t].item = 0
                /\ i \in Range(calls)
                /\ outcome[i] = "none"
                /\ outcome'[i] = IF fut'[i] = "result" THEN "ok" ELSE "failed"
                /\ \A j \in ItemIds \ {i} : fut'[j] = fut[j]]_vars
    /\ [](\A i \in ItemIds :
            /\ fut[i] = "result" => outcome[i] = "ok"
            /\ fut[i] = "exception" => outcome[i] = "failed")

\* C33 witness: three review() callers were waiting at the same time; the
\* call of the first raised, the call of the second returned, and each has
\* its own outcome while the third still waits in the queue.
RepliesToOwnCallerWitness ==
    /\ IsMCP(kind)
    /\ fut[1] = "exception" /\ fut[2] = "result" /\ fut[3] = "pending"
    /\ outcome[1] = "failed" /\ outcome[2] = "ok"
    /\ queue = <<3>>

\* C34: feedback is never lost by notify.  Whenever a feedback file is
\* deleted, the text it holds at that moment has been printed by a
\* display_feedback run.
NeverLostByNotify ==
    [][\A f \in FeedbackFiles :
          (file[f] # 0 /\ file'[f] = 0) => Displays(file[f]) # {}]_vars

\* The place of event c on the queue of agent a, 0 when it is not there.
QueuePlace(a, c) ==
    IF \E i \in DOMAIN agents[a].queue : agents[a].queue[i] = c
    THEN CHOOSE i \in DOMAIN agents[a].queue : agents[a].queue[i] = c
    ELSE 0

\* C35: arrival order is preserved into the queue.  Of two hook events of
\* one session, when the later one has been put on a queue, the earlier
\* one has ended: it was rejected, its agent failed to start, or it is on
\* the same agent's queue ahead of the later one.
ArrivalOrderPreserved ==
    \A c, d \in 1..ncalls :
        (c < d /\ bg[c].key = bg[d].key /\ bg[d].pc = "done") =>
            /\ bg[c].pc \in {"done", "failed", "rejected"}
            /\ bg[c].pc = "done" =>
                  /\ bg[c].ret = bg[d].ret
                  /\ QueuePlace(bg[c].ret, c) > 0
                  /\ QueuePlace(bg[c].ret, c) < QueuePlace(bg[d].ret, d)

\* C35 witness: two events of one session were received; the background
\* task of the first created and started the agent, that of the second
\* found it, and the agent's queue holds the two in the order of arrival.
ArrivalOrderWitness ==
    /\ ncalls >= 2 /\ bg[1].key = bg[2].key
    /\ bg[1].pc = "done" /\ bg[2].pc = "done"
    /\ nagents = 1 /\ agents[1].startCalls = 1
    /\ agents[1].queue = <<1, 2>>

\* A step in which a backend call of _query_iflow returns its reply.
ChatCompleted == qpc = "chat" /\ qpc' = "idle" /\ lastCtx' = "query_ok"

\* C36: context turns alternate.  No two consecutive stored turns have the
\* same role, and total_reviews grows by one in each step that completes
\* a backend call and in no other step.
ContextTurnsAlternate ==
    /\ [](\A h \in 1..(Len(context.messages) - 1) :
            context.messages[h].role # context.messages[h + 1].role)
    /\ [][context'.total_reviews =
             context.total_reviews + (IF ChatCompleted THEN 1 ELSE 0)]_vars

\* Hook events by the two fields the filter reads ("" when the field is
\* missing).
HookEvents ==
    [event : {"PostToolUse", "Stop", "UserPromptSubmit", "PreToolUse",
              "Notification", "SessionStart", ""},
     tool_name : {"Write", "Edit", "MultiEdit", "Read", "Bash", ""}]

\* The events that smart filtering lets through.
Critical(evt) ==
    \/ evt.event \in {"PostToolUse", "Stop", "UserPromptSubmit"}
    \/ evt.tool_name \in {"Write", "Edit", "MultiEdit"}

CriticFailureIsolation ==
    [][(criticLog'.raised # criticLog.raised) =>
          (criticTask'.st = "run" /\ criticTask'.pc = "get")]_vars

\* A stop() that cancelled a running consumer returns.
CriticStopReturns == criticLog.owner = "stopping" /\ criticLog'.owner = "idle"

\* C39: Critic.stop() completes its cleanup.  A stop() called on a started
\* Critic whose consumer is running returns normally with task None and
\* client None, having called the client's exit once; stop() never raises;
\* and a start() after a stop() is no no-op.
CriticStopCompletes ==
    /\ [][CriticStopReturns =>
            /\ criticLog'.lastOp = "stop_ok"
            /\ ~critic'.task /\ critic'.client = "none"
            /\ criticLog'.exited = criticLog.exited + 1]_vars
    /\ [](criticLog.lastOp # "stop_raised")
    /\ [][(criticLog.lastOp = "stop_ok"
             /\ criticLog'.lastOp \in {"start_new", "start_noop", "start_raised"})
            => criticLog'.lastOp # "start_noop"]_vars

====
